---- MODULE Spec2Model ----
(***************************************************************************)
(* A model of carlo's RPC core (class Handle and class Rpc): worlds,      *)
(* handles, the value codec, the router, the call/response correlator and *)
(* the world lifecycle.                                                    *)
(*                                                                         *)
(* Every world is one Rpc instance.  An instance is identified by a slot   *)
(* number (1 is the root); its world id is the string the code builds,     *)
(* kept as a sequence of one-character strings so that startsWith is the   *)
(* textual prefix test of the code.  A transport link is a pair of FIFO    *)
(* queues (rpc_process.js: the IPC channel of a child process).            *)
(*                                                                         *)
(* The code of a child world runs from its initializer on (as in every     *)
(* user of initWorld in the repository): the application acts in a world   *)
(* once the world has received its handshake.                              *)
(***************************************************************************)
EXTENDS Integers, Sequences, FiniteSets, TLC

\* ---------------------------------------------------------------- bounds
MaxWorlds == 3
MaxCalls == 2
MaxForkCalls == 1
MaxLocalCalls == 1
MaxGrandCalls == 2
MaxPrimaries == 2

Inst == 1..MaxWorlds
Root == 1
ChildA == Root + 1
ChildB == Root + 2
NoInst == 0

\* ------------------------------------------------------- world id strings
DigitChars == <<"0", "1", "2", "3", "4", "5", "6", "7", "8", "9">>

RECURSIVE NumberToString(_)
NumberToString(n) ==
  IF n < 10 THEN <<DigitChars[n + 1]>>
  ELSE NumberToString(n \div 10) \o <<DigitChars[(n % 10) + 1]>>

RootWorldId == <<".">>

ChildWorldId(worldId, n) == worldId \o <<"/">> \o NumberToString(n)

StartsWith(str, prefix) ==
  /\ Len(prefix) <= Len(str)
  /\ SubSeq(str, 1, Len(prefix)) = prefix

\* ------------------------------------------------------------ app values
Undefined == [t |-> "undefined"]
Null == [t |-> "null"]
Num(n) == [t |-> "number", n |-> n]
ProxyOf(h) == [t |-> "proxy", h |-> h]
ErrorOf(msg) == [t |-> "error", message |-> msg]
Str(s) == [t |-> "string", s |-> s]
Bool(b) == [t |-> "boolean", b |-> b]
\* a plain object: its own enumerable keys, in insertion order
Rec(entries) == [t |-> "record", entries |-> entries]
\* the function unwrap_ returns for a handle to a function
StandIn(h) == [t |-> "standin", h |-> h]

IsProxy(v) == v.t = "proxy"

\* The objects the application exports: instances of one class with the
\* members the tests and the documentation use.
Objects == {"a", "b"}
\* plain functions the application exports: one returns, one throws
FunctionObjects == {"f", "g"}
IsFunctionObject(o) == o \in FunctionObjects
NoObject == "null"
ClassName(o) == "Foo"
ParentObject == "p"
Ordinal(o) == CASE o = "a" -> 1 [] o = "b" -> 2 [] OTHER -> 3

Methods == {"ordinal", "sum", "setSibling", "bad"}

\* a value whose object references form a cycle
Cyclic == [t |-> "cyclic"]

TargetThrows(o, m, args) ==
  IF IsFunctionObject(o) THEN o = "g" ELSE m \in {"bad", "reject"}

TargetResult(o, m, args) ==
  CASE IsFunctionObject(o) -> Num(Len(args))
    [] m = "loop" -> Cyclic
    [] m = "ordinal" -> Num(Ordinal(o))
    [] m = "sum" -> Num(args[1].n + args[2].n)
    [] OTHER -> Undefined

\* An error text is the sequence of the parts the code concatenates.
ExceptionText == <<"ReferenceError: c is not defined">>
DisposedText == <<"Object has been diposed.">>
ChainTooLongText == <<"Object reference chain is too long">>
PrivateText(m) == <<"Private members are not exposed over RPC: '", m, "'">>
NoMemberText(m, descriptor) ==
  <<"There is no member '", m, "' in '",
    IF "name" \in DOMAIN descriptor THEN descriptor.name ELSE "undefined", "'">>

\* what a throwing target throws: an Error, or, for a method that rejects
\* without a reason (return Promise.reject()), undefined
ThrownBy(o, m) ==
  IF m = "reject" THEN Undefined ELSE ErrorOf(ExceptionText)

\* `${message.p}`: Array.prototype.toString of the wire arguments
RECURSIVE ItemText(_)
RECURSIVE JoinText(_)
ItemText(v) ==
  CASE v.t = "number" -> NumberToString(v.n)
    [] v.t = "array" -> JoinText(v.items)
    [] v.t \in {"undefined", "null"} -> <<>>
    [] OTHER -> <<"[object Object]">>
JoinText(items) ==
  IF items = <<>> THEN <<>>
  ELSE IF Len(items) = 1 THEN ItemText(items[1])
  ELSE ItemText(items[1]) \o <<",">> \o JoinText(Tail(items))

NotAFunctionText(m, p) ==
  <<"'", m, "' is not a function, can't pass args '">> \o ItemText(p) \o <<"'">>

\* The spelling of the member names the application uses.
Chars(m) ==
  CASE m = "_sum" -> <<"_", "s", "u", "m">>
    [] m = "sum_" -> <<"s", "u", "m", "_">>
    [] m = "_gone" -> <<"_", "g", "o", "n", "e">>
    [] m = "s_m" -> <<"s", "_", "m">>
    [] m = "_" -> <<"_">>
    [] m = "value" -> <<"v", "a", "l", "u", "e">>
    [] m = "missing" -> <<"m", "i", "s", "s", "i", "n", "g">>
    [] m = "ordinal" -> <<"o", "r", "d", "i", "n", "a", "l">>
    [] m = "sum" -> <<"s", "u", "m">>
    [] m = "setSibling" -> <<"s", "e", "t", "S", "i", "b", "l", "i", "n", "g">>
    [] m = "bad" -> <<"b", "a", "d">>
    [] m = "loop" -> <<"l", "o", "o", "p">>
    [] m = "call" -> <<"c", "a", "l", "l">>
    [] m = "reject" -> <<"r", "e", "j", "e", "c", "t">>
    [] OTHER -> <<>>

\* a privacy test that looks at the first character only
MutantPrivatePrefixOnly(m) ==
  LET c == Chars(m)
  IN c # <<>> /\ c[1] = "_"

\* message.m.startsWith('_') || message.m.endsWith('_')
IsPrivateName(m) ==
  LET c == Chars(m)
  IN c # <<>> /\ (c[1] = "_" \/ c[Len(c)] = "_")

\* The members of the exported objects: methods (some with private names)
\* and one data property.
CallableMembers == Methods \cup {"_sum", "sum_", "s_m", "_", "loop", "reject"}
\* the method `call(val)` of the exported class (test.js 87)
IsCallMethod(o, m) == m = "call" /\ ~IsFunctionObject(o)
DataMembers == {"value"}
HasMember(o, m) == m \in CallableMembers \cup DataMembers \/ IsCallMethod(o, m)
\* a target whose every member passes for a function
MutantEverythingCallable(o, m) == TRUE
IsCallable(o, m) == m \in CallableMembers \/ IsCallMethod(o, m)
NotAnObjectText == "Can only create handles for objects"
HandleToHandleText == "Can not return handle to handle."
NotPrimaryText ==
  "Can only dipose handle that was explicitly created with rpc.handle()"

\* ------------------------------------------------------------------ state
VARIABLES
  live,                      \* the instance has been constructed
  worldId_, lastHandleId_, lastWorldId_, lastMessageId_,
  worlds_,                   \* Map worldId -> sendToChild, in insertion order
  idToHandle_,               \* Map local id -> Handle
  callbacks_,                \* Map message id -> {fulfill, reject}
  sendToParent_,
  cookieResponseCallbacks_,  \* Map worldId -> resolver of createWorld's future
  cookieCallback_,
  heap,                      \* the Handle objects of each world, by creation order
  toChild, toParent,         \* transport queues of the link above each instance
  futures,                   \* the futures callMethod_ returned, by message id
  worldFutures,              \* the futures createWorld returned, by world id
  running,                   \* target methods invoked and not yet returned
  initializer,               \* progress of the child's initializer
  initialization,            \* what the initializer was called with and returned,
                             \* and how many times it was called
  log,                       \* invocations of target methods
  thrown,                    \* errors the API threw into the application
  reads,                     \* reads of members of target objects
  fields,                    \* the value of each object's data property
  probed,                    \* the last property the application read of a proxy
  answers,                   \* the responses dispatchMessageLocally_ built, in order
  codecParam, codecDepth,    \* a value handed to wrap_ and the depth allowed
  wrapped,                   \* what wrap_ made of it
  unwrapped                  \* what unwrap_ made of that

vars == <<live, worldId_, lastHandleId_, lastWorldId_, lastMessageId_, worlds_,
          idToHandle_, callbacks_, sendToParent_, cookieResponseCallbacks_,
          cookieCallback_, heap, toChild, toParent, futures, worldFutures,
          running, initializer, initialization, log, thrown, reads, fields,
          probed, answers, codecParam, codecDepth, wrapped, unwrapped>>

State ==
  [live |-> live, worldId_ |-> worldId_, lastHandleId_ |-> lastHandleId_,
   lastWorldId_ |-> lastWorldId_, lastMessageId_ |-> lastMessageId_,
   worlds_ |-> worlds_, idToHandle_ |-> idToHandle_, callbacks_ |-> callbacks_,
   sendToParent_ |-> sendToParent_,
   cookieResponseCallbacks_ |-> cookieResponseCallbacks_,
   cookieCallback_ |-> cookieCallback_, heap |-> heap, toChild |-> toChild,
   toParent |-> toParent, futures |-> futures, worldFutures |-> worldFutures,
   running |-> running, initializer |-> initializer,
   initialization |-> initialization, log |-> log,
   thrown |-> thrown, reads |-> reads, fields |-> fields, probed |-> probed,
   answers |-> answers]

\* no value is in the codec
None == [t |-> "none"]

BecomesWorld(s) ==
  /\ live' = s.live
  /\ worldId_' = s.worldId_
  /\ lastHandleId_' = s.lastHandleId_
  /\ lastWorldId_' = s.lastWorldId_
  /\ lastMessageId_' = s.lastMessageId_
  /\ worlds_' = s.worlds_
  /\ idToHandle_' = s.idToHandle_
  /\ callbacks_' = s.callbacks_
  /\ sendToParent_' = s.sendToParent_
  /\ cookieResponseCallbacks_' = s.cookieResponseCallbacks_
  /\ cookieCallback_' = s.cookieCallback_
  /\ heap' = s.heap
  /\ toChild' = s.toChild
  /\ toParent' = s.toParent
  /\ futures' = s.futures
  /\ worldFutures' = s.worldFutures
  /\ running' = s.running
  /\ initializer' = s.initializer
  /\ initialization' = s.initialization
  /\ log' = s.log
  /\ thrown' = s.thrown
  /\ reads' = s.reads
  /\ fields' = s.fields
  /\ probed' = s.probed
  /\ answers' = s.answers

\* the handler's result t is computed once and becomes the next state
Becomes(s) ==
  \E t \in {s} :
    BecomesWorld(t) /\ UNCHANGED <<codecParam, codecDepth, wrapped, unwrapped>>

StartsWorld(s) ==
  /\ live = s.live
  /\ worldId_ = s.worldId_
  /\ lastHandleId_ = s.lastHandleId_
  /\ lastWorldId_ = s.lastWorldId_
  /\ lastMessageId_ = s.lastMessageId_
  /\ worlds_ = s.worlds_
  /\ idToHandle_ = s.idToHandle_
  /\ callbacks_ = s.callbacks_
  /\ sendToParent_ = s.sendToParent_
  /\ cookieResponseCallbacks_ = s.cookieResponseCallbacks_
  /\ cookieCallback_ = s.cookieCallback_
  /\ heap = s.heap
  /\ toChild = s.toChild
  /\ toParent = s.toParent
  /\ futures = s.futures
  /\ worldFutures = s.worldFutures
  /\ running = s.running
  /\ initializer = s.initializer
  /\ initialization = s.initialization
  /\ log = s.log
  /\ thrown = s.thrown
  /\ reads = s.reads
  /\ fields = s.fields
  /\ probed = s.probed
  /\ answers = s.answers

Starts(s) ==
  /\ StartsWorld(s)
  /\ codecParam = None /\ codecDepth = 0 /\ wrapped = None /\ unwrapped = None

\* new Rpc(): the fields of a fresh instance
RpcConstructor ==
  [lastHandleId_ |-> 0, lastWorldId_ |-> 0, worlds_ |-> <<>>,
   idToHandle_ |-> <<>>, lastMessageId_ |-> 0, callbacks_ |-> <<>>,
   worldId_ |-> RootWorldId, sendToParent_ |-> NoInst,
   cookieResponseCallbacks_ |-> {}, cookieCallback_ |-> "undefined"]

\* The root world's process has started; no other instance exists yet.
Boot ==
  [live |-> [w \in Inst |-> w = Root],
   worldId_ |-> [w \in Inst |-> RpcConstructor.worldId_],
   lastHandleId_ |-> [w \in Inst |-> RpcConstructor.lastHandleId_],
   lastWorldId_ |-> [w \in Inst |-> RpcConstructor.lastWorldId_],
   lastMessageId_ |-> [w \in Inst |-> RpcConstructor.lastMessageId_],
   worlds_ |-> [w \in Inst |-> RpcConstructor.worlds_],
   idToHandle_ |-> [w \in Inst |-> RpcConstructor.idToHandle_],
   callbacks_ |-> [w \in Inst |-> RpcConstructor.callbacks_],
   sendToParent_ |-> [w \in Inst |-> RpcConstructor.sendToParent_],
   cookieResponseCallbacks_ |->
     [w \in Inst |-> RpcConstructor.cookieResponseCallbacks_],
   cookieCallback_ |-> [w \in Inst |-> RpcConstructor.cookieCallback_],
   heap |-> [w \in Inst |-> <<>>],
   toChild |-> [w \in Inst |-> <<>>],
   toParent |-> [w \in Inst |-> <<>>],
   futures |-> [w \in Inst |-> <<>>],
   worldFutures |-> [w \in Inst |-> <<>>],
   running |-> {},
   initializer |-> [w \in Inst |-> IF w = Root THEN "done" ELSE "none"],
   initialization |-> [w \in Inst |-> [args |-> None, result |-> None, calls |-> 0]],
   log |-> {},
   thrown |-> {},
   reads |-> {},
   fields |-> [o \in Objects \cup {ParentObject} |-> Num(1)],
   probed |-> None,
   answers |-> <<>>]

Init == Starts(Boot)

\* ------------------------------------------------------------- Map helpers
MapDelete(map, key) == [k \in DOMAIN map \ {key} |-> map[k]]
MapSet(map, key, value) == (key :> value) @@ map

\* worlds_ keeps insertion order: routeMessage_ and isActiveWorld_ iterate it.
WorldsHas(worlds, worldId) == \E i \in DOMAIN worlds : worlds[i].worldId = worldId
WorldsSet(worlds, worldId, send) ==
  IF WorldsHas(worlds, worldId)
  THEN [i \in DOMAIN worlds |->
          IF worlds[i].worldId = worldId
          THEN [worldId |-> worldId, send |-> send] ELSE worlds[i]]
  ELSE Append(worlds, [worldId |-> worldId, send |-> send])
WorldsDelete(worlds, worldId) ==
  SelectSeq(worlds, LAMBDA e : e.worldId # worldId)

\* -------------------------------------------------------------- the codec
DefaultMaxDepth == 1000
ChainTooLong == [t |-> "throw", message |-> ChainTooLongText]
IsThrow(v) == v.t = "throw"

\* !param
IsFalsy(param) ==
  \/ param.t \in {"undefined", "null"}
  \/ param.t = "number" /\ param.n = 0
  \/ param.t = "string" /\ param.s = ""
  \/ param.t = "boolean" /\ ~param.b

\* describe_(o)
describe_(o) ==
  IF IsFunctionObject(o) THEN [isFunc |-> TRUE] ELSE [name |-> ClassName(o)]

\* descriptor.name + '#' + n : no class name holds a '#', so the string is
\* determined by, and determines, the pair.
LocalId(descriptor, n) ==
  <<IF "name" \in DOMAIN descriptor THEN descriptor.name ELSE "undefined", n>>

\* wrap_(param, maxDepth), for the handles of one world
RECURSIVE wrap_(_, _, _)
wrap_(handles, param, maxDepth) ==
  IF maxDepth = 0 THEN ChainTooLong
  ELSE IF IsFalsy(param) THEN param
  ELSE IF param.t = "proxy"
    THEN [t |-> "token", rpc_a |-> handles[param.h].address_,
          descriptor |-> handles[param.h].descriptor_]
  ELSE IF param.t = "array"
    THEN LET items == [i \in DOMAIN param.items |->
                         wrap_(handles, param.items[i], maxDepth - 1)]
         IN IF \E i \in DOMAIN items : IsThrow(items[i])
            THEN ChainTooLong
            ELSE [t |-> "array", items |-> items]
  ELSE IF param.t = "record"
    THEN LET entries == [i \in DOMAIN param.entries |->
                           [k |-> param.entries[i].k,
                            v |-> wrap_(handles, param.entries[i].v, maxDepth - 1)]]
         IN IF \E i \in DOMAIN entries : IsThrow(entries[i].v)
            THEN ChainTooLong
            ELSE [t |-> "record", entries |-> entries]
  \* an object on a reference cycle: each level calls wrap_ on the next
  \* object of the cycle with maxDepth - 1, and the level with 0 left throws
  ELSE IF param.t = "cyclic" THEN ChainTooLong
  ELSE param

ArrayOf(items) == [t |-> "array", items |-> items]

\* new Handle(localAddress, address, descriptor, rpc)
NewHandle(localAddress, address, descriptor, object) ==
  [localAddress_ |-> localAddress, address_ |-> address,
   descriptor_ |-> descriptor, object_ |-> object]

\* a createHandle_ without the lookup of the export registry
MutantCreateHandleNoDedup(s, w, address, descriptor) ==
  LET n == s.lastHandleId_[w] + 1
      localAddress == <<s.worldId_[w], LocalId(descriptor, n)>>
  IN [s |-> [s EXCEPT !.lastHandleId_[w] = n,
                      !.heap[w] = Append(@, NewHandle(localAddress, address,
                                                     descriptor, NoObject))],
      h |-> Len(s.heap[w]) + 1]

\* a createHandle_ that caches every handle by the address it targets
MutantCreateHandleCached(s, w, address, descriptor) ==
  LET known == {h \in DOMAIN s.heap[w] : s.heap[w][h].address_ = address}
      n == s.lastHandleId_[w] + 1
      localAddress == <<s.worldId_[w], LocalId(descriptor, n)>>
  IN IF known # {}
     THEN [s |-> s, h |-> CHOOSE h \in known : \A g \in known : h <= g]
     ELSE [s |-> [s EXCEPT !.lastHandleId_[w] = n,
                           !.heap[w] = Append(@, NewHandle(localAddress, address,
                                                          descriptor, NoObject))],
           h |-> Len(s.heap[w]) + 1]

\* a createHandle_ that enters the handle it creates into the export registry
MutantCreateHandleRegisters(s, w, address, descriptor) ==
  IF address[1] = s.worldId_[w] /\ address[2] \in DOMAIN s.idToHandle_[w]
  THEN [s |-> s, h |-> s.idToHandle_[w][address[2]]]
  ELSE LET n == s.lastHandleId_[w] + 1
           localAddress == <<s.worldId_[w], LocalId(descriptor, n)>>
       IN [s |-> [s EXCEPT !.lastHandleId_[w] = n,
                           !.heap[w] = Append(@, NewHandle(localAddress, address,
                                                          descriptor, NoObject)),
                           !.idToHandle_[w] = MapSet(@, localAddress[2],
                                                     Len(s.heap[w]) + 1)],
           h |-> Len(s.heap[w]) + 1]

\* createHandle_(address, descriptor): the state after it and the Handle
createHandle_(s, w, address, descriptor) ==
  IF address[1] = s.worldId_[w] /\ address[2] \in DOMAIN s.idToHandle_[w]
  THEN [s |-> s, h |-> s.idToHandle_[w][address[2]]]
  ELSE LET n == s.lastHandleId_[w] + 1
           localAddress == <<s.worldId_[w], LocalId(descriptor, n)>>
       IN [s |-> [s EXCEPT !.lastHandleId_[w] = n,
                           !.heap[w] = Append(@, NewHandle(localAddress, address,
                                                          descriptor, NoObject))],
           h |-> Len(s.heap[w]) + 1]

\* the value of a key of a plain object (undefined when the key is absent)
Get(param, key) ==
  LET hits == {i \in DOMAIN param.entries : param.entries[i].k = key}
  IN IF hits = {} THEN Undefined ELSE param.entries[CHOOSE i \in hits : TRUE].v

\* param.__rpc_a__ is truthy: what arrived is taken for a handle token
HasAddressKey(param) ==
  param.t = "token" \/ (param.t = "record" /\ ~IsFalsy(Get(param, "__rpc_a__")))

NoDescriptorText == <<"TypeError: Cannot read property 'name' of undefined">>
NoDescriptor == [t |-> "throw", message |-> NoDescriptorText]

\* createHandle_ for an object with an __rpc_a__ key that wrap_ did not build
\* from a handle: address[0] is no world id, descriptor.name is read
CreateHandleUntyped(s, w, address, descriptor) ==
  IF descriptor.t \in {"undefined", "null"} THEN [s |-> s, ok |-> FALSE, h |-> 0]
  ELSE LET d == IF descriptor.t = "record" /\ Get(descriptor, "name").t = "string"
                THEN [name |-> Get(descriptor, "name").s]
                ELSE [name |-> "undefined"]
           n == s.lastHandleId_[w] + 1
           localAddress == <<s.worldId_[w], LocalId(d, n)>>
       IN [s |-> [s EXCEPT !.lastHandleId_[w] = n,
                           !.heap[w] = Append(@, NewHandle(localAddress, address,
                                                          d, NoObject))],
           ok |-> TRUE, h |-> Len(s.heap[w]) + 1]

\* unwrap_ of a handle token, given what createHandle_ returned: the stand-in
\* function for a handle to a function, the handle's proxy otherwise
TokenValue(r, w) ==
  [s |-> r.s,
   v |-> IF "isFunc" \in DOMAIN r.s.heap[w][r.h].descriptor_
         THEN StandIn(r.h) ELSE ProxyOf(r.h)]

\* the same for an __rpc_a__ key that wrap_ did not write
UntypedValue(r) == [s |-> r.s, v |-> IF r.ok THEN ProxyOf(r.h) ELSE NoDescriptor]

\* the array, or the object with the keys of param, of the unwrapped items
ArrayValue(r) == [s |-> r.s, v |-> IF r.ok THEN ArrayOf(r.v) ELSE r.e]
RecordValue(r, param) ==
  [s |-> r.s,
   v |-> IF r.ok
         THEN Rec([i \in DOMAIN param.entries |->
                     [k |-> param.entries[i].k, v |-> r.v[i]]])
         ELSE r.e]

\* unwrap_(param): the state after it (handles may be created) and the value,
\* or the exception it throws
RECURSIVE unwrap_(_, _, _)
RECURSIVE UnwrapItems(_, _, _, _)
unwrap_(s, w, param) ==
  IF IsFalsy(param) THEN [s |-> s, v |-> param]
  ELSE IF param.t = "token"
    THEN TokenValue(createHandle_(s, w, param.rpc_a, param.descriptor), w)
  ELSE IF HasAddressKey(param)
    THEN UntypedValue(CreateHandleUntyped(s, w, Get(param, "__rpc_a__"),
                                          Get(param, "descriptor")))
  ELSE IF param.t = "array"
    THEN ArrayValue(UnwrapItems(s, w, param.items, <<>>))
  ELSE IF param.t = "record"
    THEN RecordValue(UnwrapItems(s, w, [i \in DOMAIN param.entries |->
                                          param.entries[i].v], <<>>), param)
  ELSE [s |-> s, v |-> param]

\* param.map(item => this.unwrap_(item)), left to right, up to an exception
UnwrapItems(s, w, items, done) ==
  IF Len(done) = Len(items) THEN [s |-> s, ok |-> TRUE, v |-> done, e |-> Undefined]
  ELSE LET r == unwrap_(s, w, items[Len(done) + 1])
       IN IF IsThrow(r.v) THEN [s |-> r.s, ok |-> FALSE, v |-> done, e |-> r.v]
          ELSE UnwrapItems(r.s, w, items, Append(done, r.v))

\* ------------------------------------------------------------- the router
\* An uncaught TypeError of the core (a call of undefined or null).
Fault(s, w, where) ==
  [s EXCEPT !.thrown = @ \cup {[w |-> w, api |-> where, message |-> "TypeError"]}]

\* isActiveWorld_(worldId)
isActiveWorld_(s, w, worldId) ==
  \/ s.worldId_[w] = worldId
  \/ \E i \in DOMAIN s.worlds_[w] : StartsWith(worldId, s.worlds_[w][i].worldId)

\* the promise of sendCommand_ settles and callMethod_ continues
Settle(s, w, f, state, value) ==
  [s EXCEPT !.futures[w][f] =
      [@ EXCEPT !.state = IF @ = "pending" THEN state ELSE @,
                !.value = IF s.futures[w][f].state = "pending" THEN value ELSE @,
                !.settles = @ + 1]]

\* a world whose link to the parent hands over the newest message first
MutantSendToParentFirst(s, w, payload) ==
  IF s.sendToParent_[w] = NoInst THEN Fault(s, w, "routeMessage_")
  ELSE [s EXCEPT !.toParent[w] = <<payload>> \o @]

sendToChild(s, c, payload) == [s EXCEPT !.toChild[c] = Append(@, payload)]

CallSendToParent(s, w, payload) ==
  IF s.sendToParent_[w] = NoInst THEN Fault(s, w, "routeMessage_")
  ELSE [s EXCEPT !.toParent[w] = Append(@, payload)]

\* a router that forwards only to the child that is the destination itself
MutantChildForExact(s, w, worldId) ==
  LET hits == {i \in DOMAIN s.worlds_[w] : worldId = s.worlds_[w][i].worldId}
  IN IF hits = {} THEN 0 ELSE CHOOSE i \in hits : \A j \in hits : i <= j

\* The first child, in Map order, whose id is a prefix of the destination.
ChildFor(s, w, worldId) ==
  LET hits == {i \in DOMAIN s.worlds_[w] :
                 StartsWith(worldId, s.worlds_[w][i].worldId)}
  IN IF hits = {} THEN 0 ELSE CHOOSE i \in hits : \A j \in hits : i <= j

RECURSIVE routeMessage_(_, _, _, _)
RECURSIVE dispatchMessageLocally_(_, _, _)

\* What Handle.dispatchMessage_ comes to: it throws, it returns a value, or
\* it has called the target, which returns later.
Throws(s, text) == [s |-> s, outcome |-> "throw", text |-> text, value |-> Undefined]
Returns(s, value) == [s |-> s, outcome |-> "return", text |-> <<>>, value |-> value]
Calls(s) == [s |-> s, outcome |-> "call", text |-> <<>>, value |-> Undefined]

\* a dispatcher without the try/catch: the exception leaves the handler
MutantUncaught(s, w, payload, text) == Fault(s, w, "dispatchMessageLocally_")

\* a dispatcher that routes the response it built twice
MutantAnswerTwice(s, w, message) ==
  routeMessage_(routeMessage_([s EXCEPT !.answers = Append(Append(@, message), message)],
                              w, FALSE, message),
                w, FALSE, message)

\* dispatchMessageLocally_, last line: this.routeMessage_(false, message)
Answer(s, w, message) ==
  routeMessage_([s EXCEPT !.answers = Append(@, message)], w, FALSE, message)

\* dispatchMessageLocally_ routes the response to a call: message.e when
\* dispatchMessage_ threw, message.r otherwise
RespondError(s, w, payload, text) ==
  Answer(s, w,
    [from |-> payload.to, rid |-> payload.id, to |-> payload.from, e |-> text])

\* a world that runs one target at a time: a call that arrives while a target
\* of the world is running is not started
MutantBusyWorld(s, w, h, payload, u) ==
  IF IsThrow(u.v) THEN Throws(u.s, u.v.message)
  ELSE IF \E d \in s.running : d.w = w THEN Calls(u.s)
  ELSE Calls([u.s EXCEPT
         !.running = @ \cup {[w |-> w, from |-> payload.from, to |-> payload.to,
                              id |-> payload.id, object |-> s.heap[w][h].object_,
                              m |-> payload.message.m, p |-> payload.message.p,
                              args |-> u.v.items]},
         !.log = @ \cup {[w |-> w, from |-> payload.from, to |-> payload.to,
                          id |-> payload.id, object |-> s.heap[w][h].object_,
                          m |-> payload.message.m, p |-> payload.message.p,
                          args |-> u.v.items]}])

\* the target is called with the unwrapped arguments, u what unwrap_ returned
CallTarget(s, w, h, payload, u) ==
  IF IsThrow(u.v) THEN Throws(u.s, u.v.message)
  ELSE Calls([u.s EXCEPT
         !.running = @ \cup {[w |-> w, from |-> payload.from, to |-> payload.to,
                              id |-> payload.id, object |-> s.heap[w][h].object_,
                              m |-> payload.message.m, p |-> payload.message.p,
                              args |-> u.v.items]},
         !.log = @ \cup {[w |-> w, from |-> payload.from, to |-> payload.to,
                          id |-> payload.id, object |-> s.heap[w][h].object_,
                          m |-> payload.message.m, p |-> payload.message.p,
                          args |-> u.v.items]}])

\* this.object_[message.m](...this.rpc_.unwrap_(message.p)), or this.object_(...)
Invoke(s, w, h, payload) ==
  CallTarget(s, w, h, payload, unwrap_(s, w, payload.message.p))

RespondResult(s, w, payload, value) ==
  LET r == wrap_(s.heap[w], value, DefaultMaxDepth)
  IN IF IsThrow(r) THEN RespondError(s, w, payload, r.message)
     ELSE Answer(s, w,
            [from |-> payload.to, rid |-> payload.id, to |-> payload.from, r |-> r])

\* a dispatcher that treats every handle as a handle to an object
MutantNeverFunc(descriptor) == FALSE

IsFunc(descriptor) == "isFunc" \in DOMAIN descriptor

\* Handle.dispatchMessage_: the member is resolved; a callable member is
\* called (and returns later), every other case throws or returns at once
dispatchMessage_(s, w, h, payload) ==
  LET object == s.heap[w][h].object_
      m == payload.message.m
      read == [s EXCEPT !.reads = @ \cup {[w |-> w, object |-> object, m |-> m]}]
  IN IF IsFunc(s.heap[w][h].descriptor_) THEN Invoke(s, w, h, payload)
     ELSE IF IsPrivateName(m) THEN Throws(s, PrivateText(m))
     ELSE IF ~HasMember(object, m)
       THEN Throws(s, NoMemberText(m, s.heap[w][h].descriptor_))
     ELSE IF ~IsCallable(object, m)
       THEN IF Len(payload.message.p.items) # 0
            THEN Throws(read, NotAFunctionText(m, payload.message.p))
            ELSE Returns(read, s.fields[object])
     ELSE Invoke(read, w, h, payload)

\* try { message.r = await handle.dispatchMessage_(payload.message) }
\* catch (e) { message.e = ... }, then this.routeMessage_(false, message)
Respond(d, w, payload) ==
  IF d.outcome = "call" THEN d.s
  ELSE IF d.outcome = "throw" THEN RespondError(d.s, w, payload, d.text)
  ELSE RespondResult(d.s, w, payload, d.value)

\* a world whose init callback is a plain function that runs the initializer
\* each time it is called and is never cleared
MutantCallbackKept(s, w, u) ==
  IF IsThrow(u.v) \/ s.cookieCallback_[w] \notin {"function", "null"}
  THEN Fault(u.s, w, "routeMessage_")
  ELSE [u.s EXCEPT !.initializer[w] = "running",
                   !.initialization[w].args = u.v,
                   !.initialization[w].calls = @ + 1]

\* this.cookieCallback_(this.unwrap_(payload.args)), with u what unwrap_
\* returned: initWorld goes on and calls the initializer
CookieCallback(s, w, u) ==
  IF IsThrow(u.v) \/ s.cookieCallback_[w] # "function"
  THEN Fault(u.s, w, "routeMessage_")
  ELSE [u.s EXCEPT !.cookieCallback_[w] = "null",
                   !.initializer[w] = "running",
                   !.initialization[w].args = u.v,
                   !.initialization[w].calls = @ + 1]

\* a child that answers the handshake when it receives it, before its
\* initializer has run
MutantAnswerAtOnce(s, w, payload) ==
  LET s1 == [s EXCEPT !.worldId_[w] = payload.worldId]
      u == unwrap_(s1, w, payload.args)
  IN IF IsThrow(u.v) \/ s.cookieCallback_[w] # "function"
     THEN Fault(u.s, w, "routeMessage_")
     ELSE CallSendToParent(
            [u.s EXCEPT !.cookieCallback_[w] = "null",
                        !.initializer[w] = "running",
                        !.initialization[w].args = u.v,
                        !.initialization[w].calls = @ + 1], w,
            [cookieResponse |-> TRUE, worldId |-> payload.worldId, r |-> Undefined])

\* the branch of routeMessage_ for payload.cookie
RouteCookie(s, w, payload) ==
  CookieCallback(s, w, unwrap_([s EXCEPT !.worldId_[w] = payload.worldId], w,
                               payload.args))

\* callback({result: this.unwrap_(payload.r), worldId: payload.worldId}),
\* with u what unwrap_ returned: the promise of createWorld resolves
CookieResponseCallback(s, w, payload, u) ==
  IF IsThrow(u.v) \/ payload.worldId \notin s.cookieResponseCallbacks_[w]
  THEN Fault(u.s, w, "routeMessage_")
  ELSE [u.s EXCEPT !.worldFutures[w][payload.worldId] =
          [@ EXCEPT !.state = "resolved", !.result = u.v,
                    !.worldId = payload.worldId, !.settles = @ + 1]]

\* the branch of routeMessage_ for payload.cookieResponse
RouteCookieResponse(s, w, payload) ==
  CookieResponseCallback(s, w, payload,
    unwrap_([s EXCEPT !.cookieResponseCallbacks_[w] = @ \ {payload.worldId}], w,
            payload.r))

\* a router that rejects the pending call of its own world when it drops
\* the call's message
MutantRejectDropped(s, w, payload) ==
  IF "id" \in DOMAIN payload /\ payload.from[1] = s.worldId_[w]
     /\ payload.id \in DOMAIN s.callbacks_[w]
  THEN Settle([s EXCEPT !.callbacks_[w] = MapDelete(@, payload.id)], w,
              s.callbacks_[w][payload.id], "rejected", ErrorOf(DisposedText))
  ELSE s

\* a router without the test for its own subtree: what is neither for the
\* world nor for a registered child goes to the parent
MutantForwardToParent(s, w, payload) == CallSendToParent(s, w, payload)

\* routeMessage_, 'Sending to the disposed world': the message is discarded
DropOnTheFloor(s, w, payload) == s

routeMessage_(s, w, fromParent, payload) ==
  IF "cookie" \in DOMAIN payload THEN RouteCookie(s, w, payload)
  ELSE IF "cookieResponse" \in DOMAIN payload THEN RouteCookieResponse(s, w, payload)
  ELSE IF ~fromParent /\ ~isActiveWorld_(s, w, payload.from[1]) THEN s
  ELSE IF payload.to[1] = s.worldId_[w] THEN dispatchMessageLocally_(s, w, payload)
  ELSE IF ChildFor(s, w, payload.to[1]) # 0
    THEN sendToChild(s, s.worlds_[w][ChildFor(s, w, payload.to[1])].send, payload)
  ELSE IF StartsWith(payload.to[1], s.worldId_[w])
    THEN DropOnTheFloor(s, w, payload)
  ELSE CallSendToParent(s, w, payload)

\* a correlator that takes the oldest pending completion, matching by send order
MutantCallbacksGetOldest(callbacks, rid) ==
  callbacks[CHOOSE id \in DOMAIN callbacks : \A other \in DOMAIN callbacks : id <= other]

\* this.callbacks_.get(payload.rid)
CallbacksGet(callbacks, rid) == callbacks[rid]

\* a dispatcher that answers nothing when no handle is registered
MutantDropDisposed(s, w, payload) == s

\* no handle is registered under payload.to[1]: the error response is routed
AnswerDisposed(s, w, payload) ==
  Answer(s, w,
    [from |-> payload.to, rid |-> payload.id, to |-> payload.from,
     e |-> DisposedText])

\* a dispatcher that keeps the completion of a call that failed
MutantKeepOnError(s, w, payload) ==
  IF "e" \in DOMAIN payload THEN s
  ELSE [s EXCEPT !.callbacks_[w] = MapDelete(@, payload.rid)]

\* this.callbacks_.delete(payload.rid)
CallbacksDelete(s, w, payload) ==
  [s EXCEPT !.callbacks_[w] = MapDelete(@, payload.rid)]

\* fulfill(payload.r), with u what unwrap_ returned
Fulfill(w, f, u) ==
  IF IsThrow(u.v) THEN Settle(u.s, w, f, "rejected", ErrorOf(u.v.message))
  ELSE Settle(u.s, w, f, "resolved", u.v)

dispatchMessageLocally_(s, w, payload) ==
  IF "rid" \in DOMAIN payload
  THEN IF payload.rid \notin DOMAIN s.callbacks_[w]
       THEN Fault(s, w, "dispatchMessageLocally_")
       ELSE LET f == CallbacksGet(s.callbacks_[w], payload.rid)
                s1 == CallbacksDelete(s, w, payload)
            IN IF "e" \in DOMAIN payload
               THEN Settle(s1, w, f, "rejected", ErrorOf(payload.e))
               ELSE Fulfill(w, f, unwrap_(s1, w, payload.r))
  ELSE IF payload.to[2] \notin DOMAIN s.idToHandle_[w]
       THEN AnswerDisposed(s, w, payload)
       ELSE Respond(dispatchMessage_(s, w, s.idToHandle_[w][payload.to[2]], payload),
                    w, payload)

\* a sendCommand_ that takes the smallest id with no pending completion
MutantReuseFreeId(s, w, to, from, message, future) ==
  LET id == CHOOSE n \in 1..(s.lastMessageId_[w] + 1) :
              /\ n \notin DOMAIN s.callbacks_[w]
              /\ \A k \in 1..(n - 1) : k \in DOMAIN s.callbacks_[w]
      payload == [to |-> to, from |-> from, message |-> message, id |-> id]
      f == Len(s.futures[w]) + 1
      s1 == [s EXCEPT !.lastMessageId_[w] = IF id > @ THEN id ELSE @,
                      !.futures[w] = Append(@, [future EXCEPT !.id = id]),
                      !.callbacks_[w] = MapSet(@, id, f)]
  IN routeMessage_(s1, w, FALSE, payload)

\* sendCommand_(to, from, message), with the future callMethod_ returns
sendCommand_(s, w, to, from, message, future) ==
  LET id == s.lastMessageId_[w] + 1
      payload == [to |-> to, from |-> from, message |-> message, id |-> id]
      f == Len(s.futures[w]) + 1
      s1 == [s EXCEPT !.lastMessageId_[w] = id,
                      !.futures[w] = Append(@, future),
                      !.callbacks_[w] = MapSet(@, id, f)]
  IN routeMessage_(s1, w, FALSE, payload)

\* a callMethod_ that takes its message id before it wraps the arguments
MutantIdBeforeWrap(s, w, h, method, args) ==
  LET p == wrap_(s.heap[w], ArrayOf(args), DefaultMaxDepth)
      future == [h |-> h, to |-> s.heap[w][h].address_, m |-> method,
                 args |-> args, id |-> s.lastMessageId_[w] + 1,
                 state |-> "pending", value |-> Undefined, settles |-> 0]
  IN IF IsThrow(p)
     THEN [s EXCEPT !.lastMessageId_[w] = @ + 1,
                    !.futures[w] = Append(@,
             [future EXCEPT !.id = 0, !.state = "rejected",
                            !.value = ErrorOf(p.message), !.settles = 1])]
     ELSE sendCommand_(s, w, s.heap[w][h].address_, s.heap[w][h].localAddress_,
                       [m |-> method, p |-> p], future)

\* Handle.callMethod_(method, ...args) on the handle h of world w
callMethod_(s, w, h, method, args) ==
  LET p == wrap_(s.heap[w], ArrayOf(args), DefaultMaxDepth)
      future == [h |-> h, to |-> s.heap[w][h].address_, m |-> method,
                 args |-> args, id |-> s.lastMessageId_[w] + 1,
                 state |-> "pending", value |-> Undefined, settles |-> 0]
  IN IF IsThrow(p)
     THEN [s EXCEPT !.futures[w] = Append(@,
             [future EXCEPT !.id = 0, !.state = "rejected",
                            !.value = ErrorOf(p.message), !.settles = 1])]
     ELSE sendCommand_(s, w, s.heap[w][h].address_, s.heap[w][h].localAddress_,
                       [m |-> method, p |-> p], future)

\* ------------------------------------------------------- the handle proxy
\* property keys: strings, and symbols (handleSymbol and the well-known ones)
HandleSymbol == [t |-> "symbol", s |-> "handle"]
ToPrimitiveSymbol == [t |-> "symbol", s |-> "Symbol.toPrimitive"]

\* a function of the application or of the engine
Func == [t |-> "function"]

\* handle.callMethod_.bind(handle, methodName)
Bound(h, m) == [t |-> "bound", h |-> h, m |-> m]

\* target[methodName]: the proxy's target is {} with the one key handleSymbol,
\* and Object.prototype has no such property
TargetProperty(methodName) == Undefined

\* a proxy handler without the case for 'then'
MutantThenIsMethod(h, methodName) ==
  IF methodName = HandleSymbol THEN [t |-> "handle", h |-> h]
  ELSE IF methodName.t # "string" THEN Undefined
  ELSE Bound(h, methodName.s)

\* Handle.proxyHandler_(target, methodName, receiver), for the proxy of handle h
proxyHandler_(h, methodName) ==
  IF methodName = HandleSymbol THEN [t |-> "handle", h |-> h]
  ELSE IF methodName.t # "string" THEN Undefined
  ELSE IF methodName.s = "then" THEN TargetProperty(methodName)
  ELSE Bound(h, methodName.s)

\* the application reads a property of the proxy of handle h
GetProperty(s, w, h, methodName) ==
  [s EXCEPT !.probed = [by |-> "get", w |-> w, h |-> h, key |-> methodName,
                        value |-> proxyHandler_(h, methodName)]]

\* the proxy of handle h is awaited, or returned from an async function: the
\* promise resolution reads its 'then' and, when that is callable, calls it
\* with the two resolving functions
ResolveWith(s, w, h) ==
  LET then == proxyHandler_(h, Str("then"))
      s1 == [s EXCEPT !.probed = [by |-> "await", w |-> w, h |-> h,
                                  key |-> Str("then"), value |-> then]]
  IN IF then.t = "bound" THEN callMethod_(s1, w, then.h, then.m, <<Func, Func>>)
     ELSE s1

\* ------------------------------------------------------------ the Rpc API
Throw(s, w, api, message) ==
  [s EXCEPT !.thrown = @ \cup {[w |-> w, api |-> api, message |-> message]}]

ObjectOf(o) == [t |-> "object", o |-> o]

\* a handle() without the test for a handle: the handle becomes the target
MutantHandleOfHandle(s, w, object) ==
  IF IsFalsy(object)
  THEN Throw(s, w, "handle", NotAnObjectText)
  ELSE LET target == IF object.t = "proxy" THEN "handle" ELSE object.o
           descriptor == describe_(target)
           n == s.lastHandleId_[w] + 1
           address == <<s.worldId_[w], LocalId(descriptor, n)>>
       IN [s EXCEPT !.lastHandleId_[w] = n,
                    !.heap[w] = Append(@, NewHandle(address, address, descriptor,
                                                   target)),
                    !.idToHandle_[w] = MapSet(@, address[2], Len(s.heap[w]) + 1)]

\* handle(object)
handle(s, w, object) ==
  IF IsFalsy(object)
  THEN Throw(s, w, "handle", NotAnObjectText)
  ELSE IF object.t = "proxy"
  THEN Throw(s, w, "handle", HandleToHandleText)
  ELSE LET descriptor == describe_(object.o)
           n == s.lastHandleId_[w] + 1
           address == <<s.worldId_[w], LocalId(descriptor, n)>>
       IN [s EXCEPT !.lastHandleId_[w] = n,
                    !.heap[w] = Append(@, NewHandle(address, address, descriptor,
                                                   object.o)),
                    !.idToHandle_[w] = MapSet(@, address[2], Len(s.heap[w]) + 1)]

\* a dispose without the test for a primary handle
MutantDisposeAny(s, w, h) ==
  [s EXCEPT !.idToHandle_[w] = MapDelete(@, s.heap[w][h].address_[2])]

\* a dispose that gives the disposed handle's number back to the counter
MutantDisposeReusesId(s, w, h) ==
  IF s.heap[w][h].object_ = NoObject
  THEN Throw(s, w, "dispose", NotPrimaryText)
  ELSE [s EXCEPT !.idToHandle_[w] = MapDelete(@, s.heap[w][h].address_[2]),
                 !.lastHandleId_[w] = IF @ > 0 THEN @ - 1 ELSE @]

\* dispose(proxy)
dispose(s, w, h) ==
  IF s.heap[w][h].object_ = NoObject
  THEN Throw(s, w, "dispose", NotPrimaryText)
  ELSE [s EXCEPT !.idToHandle_[w] = MapDelete(@, s.heap[w][h].address_[2])]

\* createWorld(transport, ...args), with initWorld in the new instance c
\* (test.js, createChildWorld; rpc_process.js, spawn and init)
createWorld(s, w, c, args) ==
  LET n == s.lastWorldId_[w] + 1
      worldId == ChildWorldId(s.worldId_[w], n)
      cookie == [cookie |-> TRUE,
                 args |-> wrap_(s.heap[w], ArrayOf(args), DefaultMaxDepth),
                 worldId |-> worldId]
  IN [s EXCEPT !.lastWorldId_[w] = n,
               !.worlds_[w] = WorldsSet(@, worldId, c),
               !.cookieResponseCallbacks_[w] = @ \cup {worldId},
               !.worldFutures[w] = MapSet(@, worldId,
                  [state |-> "pending", result |-> Undefined,
                   worldId |-> worldId, settles |-> 0, args |-> args]),
               !.live[c] = TRUE,
               !.sendToParent_[c] = w,
               !.cookieCallback_[c] = "function",
               !.initializer[c] = "waiting",
               !.toChild[c] = Append(@, cookie)]

\* a disposeWorld without the test for a registered world
MutantDisposeWorldUnchecked(s, w, worldId) ==
  [s EXCEPT !.worlds_[w] = WorldsDelete(@, worldId)]

\* disposeWorld(worldId)
disposeWorld(s, w, worldId) ==
  IF ~WorldsHas(s.worlds_[w], worldId)
  THEN Throw(s, w, "disposeWorld", "No world with given id exists")
  ELSE [s EXCEPT !.worlds_[w] = WorldsDelete(@, worldId)]


\* --------------------------------------------- steps of the transport and
\* of the event loop, as functions of the state
\* the transport hands the parent's next message to routeMessage_ of child c
DeliverDown(s, c) ==
  routeMessage_([s EXCEPT !.toChild[c] = Tail(@)], c, TRUE, Head(s.toChild[c]))

\* the transport hands the next message of child c to its parent's routeMessage_
DeliverUp(s, c) ==
  routeMessage_([s EXCEPT !.toParent[c] = Tail(@)], s.sendToParent_[c], FALSE,
                Head(s.toParent[c]))

\* catch (e) { message.e = e.toString() + '\n' + e.stack; }: reading toString
\* of undefined or null is a TypeError that leaves the handler
Catch(s, w, payload, e) ==
  IF e.t \in {"undefined", "null"} THEN Fault(s, w, "dispatchMessageLocally_")
  ELSE RespondError(s, w, payload, e.message)

\* the rest of dispatchMessageLocally_, once the target method of call d has
\* returned or thrown
ReturnFromTarget(s, d) ==
  LET s1 == [s EXCEPT !.running = @ \ {d}]
      payload == [to |-> d.to, from |-> d.from, id |-> d.id]
  IN IF TargetThrows(d.object, d.m, d.args)
     THEN Catch(s1, d.w, payload, ThrownBy(d.object, d.m))
     ELSE RespondResult(s1, d.w, payload, TargetResult(d.object, d.m, d.args))

\* a child that answers the handshake when its initializer has failed
MutantFailureReported(s, w) ==
  CallSendToParent([s EXCEPT !.initializer[w] = "failed"], w,
    [cookieResponse |-> TRUE, worldId |-> s.worldId_[w], r |-> Undefined])

\* initWorld: the initializer throws or rejects, or wrap_ throws in the last
\* then: the promise initWorld returned rejects and nothing is sent
FailInitializer(s, w) == [s EXCEPT !.initializer[w] = "failed"]

\* initWorld: the initializer returns and the handshake response is sent
ReturnFromInitializer(s, w, response) ==
  IF IsThrow(wrap_(s.heap[w], response, DefaultMaxDepth))
  THEN FailInitializer([s EXCEPT !.initialization[w].result = response], w)
  ELSE CallSendToParent([s EXCEPT !.initializer[w] = "done",
                                  !.initialization[w].result = response], w,
         [cookieResponse |-> TRUE, worldId |-> s.worldId_[w],
          r |-> wrap_(s.heap[w], response, DefaultMaxDepth)])

\* the process of world c ends and its link closes
ExitWorld(s, c) ==
  [s EXCEPT !.live[c] = FALSE,
            !.worldId_[c] = RpcConstructor.worldId_,
            !.lastHandleId_[c] = RpcConstructor.lastHandleId_,
            !.lastWorldId_[c] = RpcConstructor.lastWorldId_,
            !.lastMessageId_[c] = RpcConstructor.lastMessageId_,
            !.worlds_[c] = RpcConstructor.worlds_,
            !.idToHandle_[c] = RpcConstructor.idToHandle_,
            !.callbacks_[c] = RpcConstructor.callbacks_,
            !.sendToParent_[c] = RpcConstructor.sendToParent_,
            !.cookieResponseCallbacks_[c] = RpcConstructor.cookieResponseCallbacks_,
            !.cookieCallback_[c] = RpcConstructor.cookieCallback_,
            !.heap[c] = <<>>, !.toChild[c] = <<>>, !.toParent[c] = <<>>,
            !.futures[c] = <<>>, !.worldFutures[c] = <<>>,
            !.initializer[c] = "none",
            !.initialization[c] = [args |-> None, result |-> None, calls |-> 0]]

\* ------------------------------------------------------- world trees built
\* by the operations above
\* test.js, 'parent / grand child communication': the root exports an object
\* and creates world A with its handle; A's initializer creates world B with
\* the handle it received; both handshakes complete.
ChainWorlds ==
  LET s1 == handle(Boot, Root, ObjectOf(ParentObject))
      s2 == createWorld(s1, Root, ChildA, <<ProxyOf(1)>>)
      s3 == DeliverDown(s2, ChildA)
      s4 == createWorld(s3, ChildA, ChildB, <<ProxyOf(1)>>)
      s5 == DeliverDown(s4, ChildB)
      s6 == ReturnFromInitializer(s5, ChildB, Undefined)
      s7 == DeliverUp(s6, ChildB)
      s8 == ReturnFromInitializer(s7, ChildA, Undefined)
  IN DeliverUp(s8, ChildA)

\* carlo.js, load(): the root creates a world, awaits its handshake, disposes
\* it, and the world's process ends; k times over.
RECURSIVE RecycleWorlds(_, _)
RecycleWorlds(s, k) ==
  IF k = 0 \/ ~s.live[Root] THEN s
  ELSE LET worldId == ChildWorldId(s.worldId_[Root], s.lastWorldId_[Root] + 1)
           s1 == createWorld(s, Root, ChildB, <<>>)
           s2 == DeliverDown(s1, ChildB)
           s3 == ReturnFromInitializer(s2, ChildB, Undefined)
           s4 == DeliverUp(s3, ChildB)
           s5 == disposeWorld(s4, Root, worldId)
       IN RecycleWorlds(ExitWorld(s5, ChildB), k - 1)

\* test.js, 'child / child communication', and examples/terminal/worker.js:
\* the root exports an object and creates world A, whose initializer exports
\* an object and returns its handle; after k recycled worlds the root creates
\* world B with the root's and A's handles, and B's initializer does as A's.
ForkWorlds(k) ==
  LET s1 == handle(Boot, Root, ObjectOf(ParentObject))
      s2 == createWorld(s1, Root, ChildA, <<ProxyOf(1)>>)
      s3 == DeliverDown(s2, ChildA)
      s4 == handle(s3, ChildA, ObjectOf("a"))
      s5 == ReturnFromInitializer(s4, ChildA, ProxyOf(2))
      s6 == RecycleWorlds(DeliverUp(s5, ChildA), k)
      s7 == createWorld(s6, Root, ChildB, <<ProxyOf(1), ProxyOf(2)>>)
      s8 == DeliverDown(s7, ChildB)
      s9 == handle(s8, ChildB, ObjectOf("b"))
      s10 == ReturnFromInitializer(s9, ChildB, ProxyOf(3))
  IN DeliverUp(s10, ChildB)

\* the worlds the root recycled between its two children
WorldsRecycled == 8

\* test.js, 'handle to function': the root exports a function that returns
\* and one that throws and hands both to world A; A exports a function and
\* hands it to its child B and, as the result of its initializer, to the root.
FuncWorlds ==
  LET s1 == handle(Boot, Root, ObjectOf("f"))
      s2 == handle(s1, Root, ObjectOf("g"))
      s3 == createWorld(s2, Root, ChildA, <<ProxyOf(1), ProxyOf(2)>>)
      s4 == DeliverDown(s3, ChildA)
      s5 == handle(s4, ChildA, ObjectOf("f"))
      s6 == createWorld(s5, ChildA, ChildB, <<ProxyOf(3)>>)
      s7 == DeliverDown(s6, ChildB)
      s8 == ReturnFromInitializer(s7, ChildB, Undefined)
      s9 == DeliverUp(s8, ChildB)
      s10 == ReturnFromInitializer(s9, ChildA, ProxyOf(3))
  IN DeliverUp(s10, ChildA)

\* test.js, 'child / child communication': after the worlds of ForkWorlds
\* are up, the root hands B's handle to A by a call of A's setSibling
ReturnFromRunning(s) == ReturnFromTarget(s, CHOOSE d \in s.running : TRUE)

SiblingWorlds(k) ==
  DeliverUp(
    ReturnFromRunning(
      DeliverDown(
        callMethod_(ForkWorlds(k), Root, 2, "setSibling", <<ProxyOf(3)>>),
        ChildA)),
    ChildA)

InitSiblings == \E k \in {0, WorldsRecycled} : Starts(SiblingWorlds(k))
InitFunc == Starts(FuncWorlds)
InitChain == Starts(ChainWorlds)
InitFork == \E k \in {0, WorldsRecycled} : Starts(ForkWorlds(k))

\* ------------------------------------------------------------- the actions
\* The application of world w runs: the root from the start, a child from its
\* initializer on.
AppRuns(w) == live[w] /\ initializer[w] \in {"running", "done"}

HandlesOf(w) == DOMAIN heap[w]
PrimariesOf(w) == {h \in HandlesOf(w) : heap[w][h].object_ # NoObject}
CallsOf(w) == {f \in DOMAIN futures[w] : futures[w][f].id # 0}

RECURSIVE Total(_, _)
Total(count, worlds) ==
  IF worlds = {} THEN 0
  ELSE LET w == CHOOSE w \in worlds : TRUE
       IN count[w] + Total(count, worlds \ {w})

CallsIssued == Total([w \in Inst |-> Len(futures[w])], Inst)
PrimariesCreated == Total([w \in Inst |-> Cardinality(PrimariesOf(w))], Inst)

Handle(w, object) ==
  /\ AppRuns(w)
  /\ object.t = "object" => PrimariesCreated < MaxPrimaries
  /\ Becomes(handle(State, w, object))

Dispose(w, h) ==
  /\ AppRuns(w)
  /\ Becomes(dispose(State, w, h))

Call(w, h, m, args) ==
  /\ AppRuns(w)
  /\ Becomes(callMethod_(State, w, h, m, args))

FreeInst == {c \in Inst : ~live[c]}

CreateWorld(w, args) ==
  /\ AppRuns(w)
  /\ FreeInst # {}
  /\ LET c == CHOOSE c \in FreeInst : \A d \in FreeInst : c <= d
     IN Becomes(createWorld(State, w, c, args))

DisposeWorld(w, worldId) ==
  /\ AppRuns(w)
  /\ Becomes(disposeWorld(State, w, worldId))

DeliverToChild(c) ==
  /\ toChild[c] # <<>>
  /\ Becomes(DeliverDown(State, c))

DeliverToParent(c) ==
  /\ toParent[c] # <<>>
  /\ Becomes(DeliverUp(State, c))

DispatchReturn(d) ==
  /\ d \in running
  /\ Becomes(ReturnFromTarget(State, d))

InitializerReturn(w, response) ==
  /\ live[w]
  /\ initializer[w] = "running"
  /\ Becomes(ReturnFromInitializer(State, w, response))

\* ------------------------------------------------- what the application does
HandleInputs(w) ==
  {Undefined, Null, Num(0), ObjectOf("a")} \cup {ProxyOf(h) : h \in HandlesOf(w)}

ArgsFor(w, m) ==
  CASE m = "sum" -> {<<Num(1), Num(3)>>, <<Num(2), Num(3)>>}
    [] m = "setSibling" -> {<<ProxyOf(h)>> : h \in HandlesOf(w)}
    [] OTHER -> {<<>>}

LocalMethods == {"sum", "setSibling", "bad"}
NetMethods == {"ordinal", "setSibling", "bad"}

\* one world, every input of the API
NextLocal ==
  \/ \E object \in HandleInputs(Root) : Handle(Root, object)
  \/ \E h \in HandlesOf(Root) : Dispose(Root, h)
  \/ \E h \in HandlesOf(Root) : \E m \in LocalMethods : \E args \in ArgsFor(Root, m) :
       CallsIssued < MaxLocalCalls /\ Call(Root, h, m, args)
  \/ \E d \in running : DispatchReturn(d)

SpecLocal == Init /\ [][NextLocal]_vars

\* a tree of worlds: calls and disposals in every world, over the transport
Transport ==
  \/ \E c \in Inst : DeliverToChild(c)
  \/ \E c \in Inst : DeliverToParent(c)
  \/ \E d \in running : DispatchReturn(d)

NextNet(budget) ==
  \/ \E w \in Inst : \E h \in HandlesOf(w) : \E m \in NetMethods :
       \E args \in ArgsFor(w, m) : CallsIssued < budget /\ Call(w, h, m, args)
  \/ \E w \in Inst : \E h \in PrimariesOf(w) : Dispose(w, h)
  \/ Transport

NextChain == NextNet(MaxCalls)
NextFork == NextNet(MaxForkCalls)

SpecChain == InitChain /\ [][NextChain]_vars
SpecFork == InitFork /\ [][NextFork]_vars

\* one world with several calls outstanding to handles of other worlds
RaceMethods == {"ordinal", "bad"}
NextRace ==
  \/ \E h \in HandlesOf(Root) \ PrimariesOf(Root) : \E m \in RaceMethods :
       CallsIssued < MaxCalls /\ Call(Root, h, m, <<>>)
  \/ Transport

SpecRace == InitFork /\ [][NextRace]_vars

\* the chain of worlds where the child and the grandchild call the root's
\* object, which the root may dispose
NextGrand ==
  \/ \E w \in {ChildA, ChildB} : \E h \in HandlesOf(w) :
       CallsIssued < MaxGrandCalls /\ Call(w, h, "ordinal", <<>>)
  \/ \E h \in PrimariesOf(Root) : Dispose(Root, h)
  \/ Transport

SpecGrand == InitChain /\ [][NextGrand]_vars

\* The transport delivers every message it accepted and a target that was
\* invoked returns.
FairGrand == SpecGrand /\ WF_vars(Transport)
FairFork == SpecFork /\ WF_vars(Transport)

\* the chain of worlds where every world calls members of the root's object
\* by every kind of name, while the root's application updates the object
MaxMemberCalls == 1
MemberNames ==
  {"_sum", "sum_", "_gone", "s_m", "_", "value", "missing", "sum", "bad", "loop"}
MemberArgs(m) ==
  IF m \in {"value", "missing", "_gone"} THEN {<<>>, <<Num(1), Num(3)>>}
  ELSE {<<Num(1), Num(3)>>}

\* the root's application assigns the data property of its object
SetField(o, v) ==
  /\ AppRuns(Root)
  /\ fields[o] # v
  /\ Becomes([State EXCEPT !.fields[o] = v])

NextMember ==
  \/ \E w \in Inst : \E h \in HandlesOf(w) : \E m \in MemberNames :
       \E args \in MemberArgs(m) : CallsIssued < MaxMemberCalls /\ Call(w, h, m, args)
  \/ SetField(ParentObject, Num(2))
  \/ Transport

SpecMember == InitChain /\ [][NextMember]_vars

\* the chain of worlds where the grandchild makes calls on the root's object
\* that fail in the dispatch, next to calls that do not
MaxFailureCalls == 2
FailureNames == {"bad", "missing", "loop", "ordinal", "reject"}
NextFailures ==
  \/ \E h \in HandlesOf(ChildB) : \E m \in FailureNames :
       CallsIssued < MaxFailureCalls /\ Call(ChildB, h, m, <<>>)
  \/ Transport

SpecFailures == InitChain /\ [][NextFailures]_vars
FairFailures == SpecFailures /\ WF_vars(Transport)

\* ---- targets that call: `async call(val) { return await val.name(); }`
\* the running call a future was issued by
By(d) == <<d.w, d.from, d.id>>
IssuedBy(s, d) ==
  [s EXCEPT !.futures[d.w][Len(s.futures[d.w])] =
     [x \in DOMAIN @ \cup {"by"} |-> IF x = "by" THEN By(d) ELSE @[x]]]

InnerCalls(s, d) ==
  {f \in DOMAIN s.futures[d.w] :
     /\ "by" \in DOMAIN s.futures[d.w][f]
     /\ s.futures[d.w][f].by = By(d)}

\* the target method `call` calls `ordinal` of the handle it was given
CallFromTarget(s, d) == IssuedBy(callMethod_(s, d.w, d.args[1].h, "ordinal", <<>>), d)

\* the awaited future settled: the method returns its value, or the await
\* throws its Error
ReturnFromCall(s, d, fu) ==
  LET s1 == [s EXCEPT !.running = @ \ {d}]
      payload == [to |-> d.to, from |-> d.from, id |-> d.id]
  IN IF fu.state = "rejected"
     THEN RespondError(s1, d.w, payload, <<"Error: ">> \o fu.value.message)
     ELSE RespondResult(s1, d.w, payload, fu.value)

NestedCall(d) ==
  /\ d \in running
  /\ d.m = "call"
  /\ InnerCalls(State, d) = {}
  /\ Becomes(CallFromTarget(State, d))

NestedReturn(d) ==
  /\ d \in running
  /\ d.m = "call"
  /\ \E f \in InnerCalls(State, d) :
       /\ futures[d.w][f].state # "pending"
       /\ Becomes(ReturnFromCall(State, d, futures[d.w][f]))

\* the chain of worlds where world A exports an object too and the root a
\* second one
NestedWorlds ==
  handle(handle(ChainWorlds, ChildA, ObjectOf("a")), Root, ObjectOf("b"))
InitNested == Starts(NestedWorlds)

MaxNestedCalls == 1
AppCalls(w) == {f \in DOMAIN futures[w] : "by" \notin DOMAIN futures[w][f]}
AppCallsIssued == Total([w \in Inst |-> Cardinality(AppCalls(w))], Inst)

NestedProgress ==
  \/ \E c \in Inst : DeliverToChild(c)
  \/ \E c \in Inst : DeliverToParent(c)
  \/ \E d \in running : d.m # "call" /\ DispatchReturn(d)
  \/ \E d \in running : NestedCall(d)
  \/ \E d \in running : NestedReturn(d)

NextNested ==
  \/ \E w \in Inst : \E h \in HandlesOf(w) : \E v \in HandlesOf(w) :
       AppCallsIssued < MaxNestedCalls /\ Call(w, h, "call", <<ProxyOf(v)>>)
  \/ \E h \in PrimariesOf(ChildA) : Dispose(ChildA, h)
  \/ NestedProgress

SpecNested == InitNested /\ [][NextNested]_vars
\* the transport delivers, and a target method runs on: it issues its call
\* and resumes once the future it awaits has settled
FairNested == SpecNested /\ WF_vars(NestedProgress)

\* the root disposes its handle while the calls of every world of the chain
\* to it are on the links or in their targets
MaxLateCalls == 2
LateNames == {"ordinal", "sum", "reject"}
NextLate ==
  \/ \E w \in Inst : \E h \in HandlesOf(w) : \E m \in LateNames :
       CallsIssued < MaxLateCalls /\ Call(w, h, m, <<Num(1), Num(3)>>)
  \/ \E h \in PrimariesOf(Root) : Dispose(Root, h)
  \/ Transport

SpecLate == InitChain /\ [][NextLate]_vars

\* wrap_ and unwrap_ applied to values of every shape: leaves, and arrays and
\* objects nested to a given number of levels that hold a leaf or nothing
MaxNesting == 4
MaxDepthBound == 3

Leaves ==
  {Undefined, Null, Num(0), Num(1), Str(""), Str("one"), Bool(FALSE), Bool(TRUE)}

Container(kind, content) ==
  IF kind = "array" THEN ArrayOf(content)
  ELSE Rec([i \in DOMAIN content |-> [k |-> "a", v |-> content[i]]])

RECURSIVE Nest(_, _, _)
Nest(levels, kind, content) ==
  IF levels = 1 THEN Container(kind, content)
  ELSE Container(kind, <<Nest(levels - 1, kind, content)>>)

\* values with more than one item, and objects with the key of a token
Flat ==
  {ArrayOf(<<Num(1), Null, Str(""), Num(2)>>),
   Rec(<<[k |-> "b", v |-> Num(2)], [k |-> "a", v |-> Bool(FALSE)]>>),
   Rec(<<[k |-> "__rpc_a__", v |-> Num(0)]>>),
   Rec(<<[k |-> "__rpc_a__", v |-> Num(1)]>>),
   Rec(<<[k |-> "__rpc_a__", v |-> Str("one")],
         [k |-> "descriptor", v |-> Rec(<<[k |-> "name", v |-> Str("one")]>>)]>>),
   ArrayOf(<<Rec(<<[k |-> "__rpc_a__", v |-> Bool(TRUE)]>>)>>)}

WrapInputs ==
  Leaves \cup {ProxyOf(1)} \cup Flat
    \cup {Nest(levels, kind, content) :
            levels \in 1..MaxNesting, kind \in {"array", "object"},
            content \in {<<>>} \cup {<<leaf>> : leaf \in Leaves \cup {ProxyOf(1)}}}

\* the root has exported an object; a value and a depth are chosen
InitWrap ==
  /\ StartsWorld(handle(Boot, Root, ObjectOf(ParentObject)))
  /\ codecParam \in WrapInputs
  /\ codecDepth \in 1..MaxDepthBound
  /\ wrapped = None
  /\ unwrapped = None

Wrap ==
  /\ wrapped = None
  /\ wrapped' = wrap_(heap[Root], codecParam, codecDepth)
  /\ UNCHANGED <<codecParam, codecDepth, unwrapped>>
  /\ BecomesWorld(State)

Unwrap ==
  /\ wrapped # None /\ ~IsThrow(wrapped)
  /\ unwrapped = None
  /\ LET r == unwrap_(State, Root, wrapped)
     IN unwrapped' = r.v /\ BecomesWorld(r.s)
  /\ UNCHANGED <<codecParam, codecDepth, wrapped>>

NextWrap == Wrap \/ Unwrap
SpecWrap == InitWrap /\ [][NextWrap]_vars

\* the chain of worlds where every world calls the root's object with
\* arguments that hold, or do not hold, an object that refers to itself
MaxCycleCalls == 2
CycleArgs ==
  {<<Rec(<<[k |-> "a", v |-> Cyclic]>>)>>, <<Num(1), ArrayOf(<<Cyclic>>)>>,
   <<Rec(<<[k |-> "a", v |-> ArrayOf(<<>>)]>>)>>}
NextCycle ==
  \/ \E w \in Inst : \E h \in HandlesOf(w) : \E args \in CycleArgs :
       CallsIssued < MaxCycleCalls /\ Call(w, h, "setSibling", args)
  \/ Transport

SpecCycle == InitChain /\ [][NextCycle]_vars

\* the handles of world w that unwrap_ delivered as functions
StandInsOf(w) ==
  {h \in HandlesOf(w) : heap[w][h].object_ = NoObject
                          /\ "isFunc" \in DOMAIN heap[w][h].descriptor_}

\* the application calls the function unwrap_ gave it for handle h
InvokeStandIn(w, h, args) ==
  /\ AppRuns(w)
  /\ Becomes(callMethod_(State, w, h, "call", args))

\* the worlds that received functions call them
MaxFuncCalls == 2
FuncArgs == {<<>>, <<Num(5)>>, <<Num(1), Num(3)>>}
NextFunc ==
  \/ \E w \in Inst : \E h \in StandInsOf(w) : \E args \in FuncArgs :
       CallsIssued < MaxFuncCalls /\ InvokeStandIn(w, h, args)
  \/ Transport

SpecFunc == InitFunc /\ [][NextFunc]_vars

\* worlds are created with arguments of every kind; an initializer calls the
\* handles it was given, awaits the calls, and returns a value or a handle
MaxInitCalls == 1
InitArgs(w) == {<<>>, <<Num(1)>>} \cup {<<ProxyOf(h)>> : h \in HandlesOf(w)}
Awaited(w) == \A f \in DOMAIN futures[w] : futures[w][f].state # "pending"
NextInit ==
  \/ \E w \in Inst : \E args \in InitArgs(w) : CreateWorld(w, args)
  \/ \E w \in Inst : \E h \in HandlesOf(w) :
       /\ initializer[w] = "running"
       /\ CallsIssued < MaxInitCalls
       /\ Call(w, h, "ordinal", <<>>)
  \/ \E w \in Inst : \E response \in {Undefined, Num(7)}
                                     \cup {ProxyOf(h) : h \in HandlesOf(w)} :
       Awaited(w) /\ InitializerReturn(w, response)
  \/ Transport

InitExported == Starts(handle(Boot, Root, ObjectOf(ParentObject)))
SpecInit == InitExported /\ [][NextInit]_vars

\* the root disposes worlds while it and world A call the objects of the
\* other worlds
MaxGoneCalls == 2
NextGone ==
  \/ \E i \in DOMAIN worlds_[Root] : DisposeWorld(Root, worlds_[Root][i].worldId)
  \/ \E w \in {Root, ChildA} : \E h \in HandlesOf(w) :
       CallsIssued < MaxGoneCalls /\ Call(w, h, "ordinal", <<>>)
  \/ Transport

SpecGone == InitSiblings /\ [][NextGone]_vars

\* every world disposes worlds by every id: those of its children, of
\* worlds it has disposed or never created, and its own; the root calls
\* the objects of its children meanwhile
MaxDisposeCalls == 1
WorldIdsTried(w) ==
  {ChildWorldId(worldId_[w], n) : n \in 1..(lastWorldId_[w] + 1)} \cup {worldId_[w]}
NextDispose ==
  \/ \E w \in Inst : \E worldId \in WorldIdsTried(w) : DisposeWorld(w, worldId)
  \/ \E h \in HandlesOf(Root) \ PrimariesOf(Root) :
       CallsIssued < MaxDisposeCalls /\ Call(Root, h, "ordinal", <<>>)
  \/ Transport

SpecDispose == InitFork /\ [][NextDispose]_vars

\* the applications read properties of their proxies and await them, next
\* to calls
MaxThenCalls == 1
PropertyKeys == {HandleSymbol, ToPrimitiveSymbol, Str("then"), Str("ordinal")}

ReadProperty(w, h, methodName) ==
  /\ AppRuns(w)
  /\ Becomes(GetProperty(State, w, h, methodName))

Await(w, h) ==
  /\ AppRuns(w)
  /\ Becomes(ResolveWith(State, w, h))

NextThen ==
  \/ \E w \in Inst : \E h \in HandlesOf(w) : \E methodName \in PropertyKeys :
       ReadProperty(w, h, methodName)
  \/ \E w \in Inst : \E h \in HandlesOf(w) : Await(w, h)
  \/ \E w \in Inst : \E h \in HandlesOf(w) :
       CallsIssued < MaxThenCalls /\ Call(w, h, "ordinal", <<>>)
  \/ Transport

SpecThen == InitChain /\ [][NextThen]_vars

\* the root disposes worlds while every world, the disposed ones too, calls
\* the objects of the others
MaxOrphanCalls == 2
NextOrphan ==
  \/ \E i \in DOMAIN worlds_[Root] : DisposeWorld(Root, worlds_[Root][i].worldId)
  \/ \E w \in Inst : \E h \in HandlesOf(w) \ PrimariesOf(w) :
       CallsIssued < MaxOrphanCalls /\ Call(w, h, "ordinal", <<>>)
  \/ Transport

SpecOrphan == InitSiblings /\ [][NextOrphan]_vars

\* a transport that may deliver a response twice: the worlds below the root
\* call the root's object, and a response waiting on a link is duplicated
MaxDuplicateCalls == 2
MaxCopies == 2

Copies(payload) ==
  Total([c \in Inst |-> Cardinality({i \in DOMAIN toChild[c] : toChild[c][i] = payload})],
        Inst)

DuplicateToChild(c) ==
  /\ toChild[c] # <<>>
  /\ "rid" \in DOMAIN Head(toChild[c])
  /\ Copies(Head(toChild[c])) < MaxCopies
  /\ Becomes([State EXCEPT !.toChild[c] = <<Head(@)>> \o @])

NextDuplicate ==
  \/ \E w \in Inst : \E h \in HandlesOf(w) \ PrimariesOf(w) : \E m \in RaceMethods :
       CallsIssued < MaxDuplicateCalls /\ Call(w, h, m, <<>>)
  \/ \E c \in Inst : DuplicateToChild(c)
  \/ Transport

SpecDuplicate == InitChain /\ [][NextDuplicate]_vars

\* the life of worlds, from the root's start
\* worlds are created and a handshake in flight may be sent again, up to
\* MaxHandshakes copies of it
MaxHandshakes == 2

ResendHandshake(c) ==
  /\ initializer[c] = "waiting"
  /\ toChild[c] # <<>>
  /\ "cookie" \in DOMAIN Head(toChild[c])
  /\ Copies(Head(toChild[c])) < MaxHandshakes
  /\ Becomes([State EXCEPT !.toChild[c] = @ \o <<Head(@)>>])

NextHandshake ==
  \/ \E w \in Inst : \E args \in {<<Num(1)>>} \cup {<<ProxyOf(h)>> : h \in HandlesOf(w)} :
       CreateWorld(w, args)
  \/ \E c \in Inst : ResendHandshake(c)
  \/ \E w \in Inst : InitializerReturn(w, Undefined)
  \/ \E c \in Inst : DeliverToChild(c)
  \/ \E c \in Inst : DeliverToParent(c)

SpecHandshake == InitExported /\ [][NextHandshake]_vars

\* worlds whose script uses the API from the moment initWorld has been
\* called, before the handshake has arrived: they export objects and create
\* worlds of their own; the root creates and disposes worlds and calls the
\* handles it is given
MaxEarlyCalls == 1

Early(w) == live[w] /\ initializer[w] = "waiting"

EarlyHandle(w, object) ==
  /\ Early(w)
  /\ PrimariesCreated < MaxPrimaries
  /\ Becomes(handle(State, w, object))

EarlyCreateWorld(w, args) ==
  /\ Early(w)
  /\ FreeInst # {}
  /\ LET c == CHOOSE c \in FreeInst : \A d \in FreeInst : c <= d
     IN Becomes(createWorld(State, w, c, args))

NextEarly ==
  \/ \E w \in Inst : EarlyHandle(w, ObjectOf("a"))
  \/ \E w \in Inst : EarlyCreateWorld(w, <<>>)
  \/ \E args \in {<<>>, <<ProxyOf(1)>>} : CreateWorld(Root, args)
  \/ \E i \in DOMAIN worlds_[Root] : DisposeWorld(Root, worlds_[Root][i].worldId)
  \/ \E w \in Inst : \E response \in {Undefined} \cup {ProxyOf(h) : h \in PrimariesOf(w)} :
       InitializerReturn(w, response)
  \/ \E w \in Inst : \E h \in HandlesOf(w) :
       CallsIssued < MaxEarlyCalls /\ Call(w, h, "ordinal", <<>>)
  \/ Transport

SpecEarly == InitExported /\ [][NextEarly]_vars

\* the root creates worlds and disposes them at any time, before or after
\* their handshake response has arrived; the worlds export objects and return
\* them, or nothing, from their initializers
NextLateResponse ==
  \/ \E args \in {<<>>, <<ProxyOf(1)>>} : CreateWorld(Root, args)
  \/ \E i \in DOMAIN worlds_[Root] : DisposeWorld(Root, worlds_[Root][i].worldId)
  \/ \E w \in Inst \ {Root} : Handle(w, ObjectOf("a"))
  \/ \E w \in Inst : \E response \in {Undefined} \cup {ProxyOf(h) : h \in HandlesOf(w)} :
       InitializerReturn(w, response)
  \/ \E c \in Inst : DeliverToChild(c)
  \/ \E c \in Inst : DeliverToParent(c)

SpecLateResponse == InitExported /\ [][NextLateResponse]_vars

\* the initializer of world w throws, or the promise it returned rejects
InitializerThrow(w) ==
  /\ live[w]
  /\ initializer[w] = "running"
  /\ Becomes(FailInitializer(State, w))

\* the root creates worlds whose initializers export an object, hand it to
\* the root's object, and then return, return a value that cannot be wrapped,
\* or throw; the root calls an object it was handed
NextFailedInit ==
  \/ CreateWorld(Root, <<ProxyOf(1)>>)
  \/ \E w \in Inst \ {Root} : initializer[w] = "running" /\ Handle(w, ObjectOf("a"))
  \/ \E w \in Inst \ {Root} : \E h \in PrimariesOf(w) :
       /\ initializer[w] = "running"
       /\ futures[w] = <<>>
       /\ Call(w, 1, "setSibling", <<ProxyOf(h)>>)
  \/ \E h \in HandlesOf(Root) \ PrimariesOf(Root) :
       futures[Root] = <<>> /\ Call(Root, h, "ordinal", <<>>)
  \/ \E w \in Inst : \E response \in {Undefined, Cyclic} : InitializerReturn(w, response)
  \/ \E w \in Inst : InitializerThrow(w)
  \/ Transport

SpecFailedInit == InitExported /\ [][NextFailedInit]_vars

Next ==
  \/ \E w \in Inst : \E o \in Objects : Handle(w, ObjectOf(o))
  \/ \E w \in Inst : \E h \in PrimariesOf(w) : Dispose(w, h)
  \/ \E w \in Inst : \E h \in HandlesOf(w) : \E m \in NetMethods :
       \E args \in ArgsFor(w, m) : CallsIssued < MaxCalls /\ Call(w, h, m, args)
  \/ \E w \in Inst : \E args \in {<<>>} \cup {<<ProxyOf(h)>> : h \in HandlesOf(w)} :
       CreateWorld(w, args)
  \/ \E w \in Inst : \E i \in DOMAIN worlds_[w] : DisposeWorld(w, worlds_[w][i].worldId)
  \/ Transport
  \/ \E w \in Inst :
       \E response \in {Undefined} \cup {ProxyOf(h) : h \in HandlesOf(w)} :
         InitializerReturn(w, response)

Spec == Init /\ [][Next]_vars

\* ======================================================= what is observed
\* the address a call of future f of world w was sent from
SenderOf(w, f) == heap[w][futures[w][f].h].localAddress_

\* the invocations of a target method made for future f of world w
InvokedFor(w, f) ==
  {e \in log : e.from = SenderOf(w, f) /\ e.id = futures[w][f].id}

\* the object behind an address: the object of the primary handle created
\* under it (disposed or not)
HomeOf(address) == CHOOSE v \in Inst : live[v] /\ worldId_[v] = address[1]
ObjectAt(address) ==
  LET v == HomeOf(address)
      h == CHOOSE h \in HandlesOf(v) : heap[v][h].localAddress_ = address
  IN heap[v][h].object_

\* A settled future holds the outcome of its own call: the return value of
\* its own target for its own arguments, the target's exception, or the
\* disposed error when the target was not invoked; and it settled once.
OwnOutcome(w, f) ==
  LET fu == futures[w][f]
      o == ObjectAt(fu.to)
  IN /\ fu.settles <= 1
     /\ fu.state = "pending" => fu.settles = 0
     /\ fu.state = "resolved" =>
          /\ fu.settles = 1
          /\ InvokedFor(w, f) # {}
          /\ ~TargetThrows(o, fu.m, fu.args)
          /\ fu.value = TargetResult(o, fu.m, fu.args)
     /\ fu.state = "rejected" =>
          /\ fu.settles = 1
          /\ \/ fu.value = ErrorOf(DisposedText) /\ InvokedFor(w, f) = {}
             \/ /\ fu.value = ErrorOf(ExceptionText)
                /\ InvokedFor(w, f) # {}
                /\ TargetThrows(o, fu.m, fu.args)

\* an address under which a live world has a handle registered
Registered(address) ==
  \E v \in Inst : /\ live[v] /\ worldId_[v] = address[1]
                  /\ address[2] \in DOMAIN idToHandle_[v]

\* an address whose primary handle was created and has been disposed
Disposed(address) ==
  /\ ~Registered(address)
  /\ \E v \in Inst : \E h \in PrimariesOf(v) : heap[v][h].localAddress_ = address

IsCall(payload) == "id" \in DOMAIN payload
IsResponse(payload) == "rid" \in DOMAIN payload

\* the messages on the links
OnLinks ==
  UNION {{toChild[c][i] : i \in 1..Len(toChild[c])}
           \cup {toParent[c][i] : i \in 1..Len(toParent[c])} : c \in Inst}

\* the call of future f of world w, or its response, is on its way: on a
\* link, or in its target method
InFlight(w, f) ==
  \/ \E payload \in OnLinks :
       \/ /\ IsCall(payload)
          /\ payload.from = SenderOf(w, f) /\ payload.id = futures[w][f].id
       \/ /\ IsResponse(payload)
          /\ payload.to = SenderOf(w, f) /\ payload.rid = futures[w][f].id
  \/ \E d \in running : d.from = SenderOf(w, f) /\ d.id = futures[w][f].id

Settled(w, f) == futures[w][f].state # "pending"

\* ================================================================= claims

\* C1: every call made through a handle whose primary handle is registered in
\* a world reachable from the caller eventually settles, exactly once, with
\* the outcome of its own call (the target's return value, or the error the
\* response carries).
C1_EveryCallSettles ==
  \A w \in Inst : \A f \in 1..MaxForkCalls :
    (f \in CallsOf(w) /\ Registered(futures[w][f].to))
      ~> (f \in CallsOf(w) /\ Settled(w, f) /\ OwnOutcome(w, f))

\* C2: when one world has several calls outstanding to different remote
\* handles, every future is settled with the response to its own call (the
\* result of its own target, or its own error), never with the response to
\* another call, in whatever order the responses arrive.
C2_OwnResponse == \A w \in Inst : \A f \in CallsOf(w) : OwnOutcome(w, f)

\* C2 witness: the root has two calls outstanding to handles of two worlds and
\* the response to the later call has arrived first.
C2_Witness ==
  \E f1, f2 \in CallsOf(Root) :
    /\ f1 < f2
    /\ futures[Root][f1].to[1] # futures[Root][f2].to[1]
    /\ futures[Root][f1].state = "pending"
    /\ futures[Root][f2].state = "resolved"
    /\ futures[Root][f2].value = Num(Ordinal(ObjectAt(futures[Root][f2].to)))

\* the calls of the grandchild on handles of the root, and their responses
UpCall(payload) ==
  /\ IsCall(payload)
  /\ payload.from[1] = worldId_[ChildB] /\ payload.to[1] = worldId_[Root]
DownResponse(payload) ==
  /\ IsResponse(payload)
  /\ payload.from[1] = worldId_[Root] /\ payload.to[1] = worldId_[ChildB]

C3_Path ==
  /\ \A c \in Inst : \A i \in 1..Len(toChild[c]) : ~UpCall(toChild[c][i])
  /\ \A c \in Inst \ {ChildA, ChildB} :
       \A i \in 1..Len(toParent[c]) : ~UpCall(toParent[c][i])
  /\ \A c \in Inst : \A i \in 1..Len(toParent[c]) : ~DownResponse(toParent[c][i])
  /\ \A c \in Inst \ {ChildA, ChildB} :
       \A i \in 1..Len(toChild[c]) : ~DownResponse(toChild[c][i])
  /\ \A e \in log :
       (e.from[1] = worldId_[ChildB] /\ e.to[1] = worldId_[Root]) => e.w = Root
  /\ \A w \in Inst : \A f \in CallsOf(w) :
       /\ futures[w][f].settles <= 1
       /\ Settled(w, f) => InvokedFor(w, f) # {} \/ Disposed(futures[w][f].to)

\* C3: in the tree root -> A -> B, a call of B on a handle whose primary
\* lives in the root travels on the links B->A and A->root only and is
\* dispatched in the root only; its response travels on the links root->A and
\* A->B only; no future settles without its own call having been dispatched;
\* and B's pending call is eventually settled.
C3_GrandChildCall ==
  /\ []C3_Path
  /\ \A f \in 1..MaxGrandCalls :
       (f \in CallsOf(ChildB) /\ futures[ChildB][f].to[1] = worldId_[Root])
         ~> (f \in CallsOf(ChildB) /\ Settled(ChildB, f))

\* C3 witness: a call of B on the root's object was invoked in the root and
\* B's future holds the root object's answer.
C3_Witness ==
  \E f \in CallsOf(ChildB) :
    /\ futures[ChildB][f].to = heap[Root][1].localAddress_
    /\ futures[ChildB][f].state = "resolved"
    /\ futures[ChildB][f].value = Num(Ordinal(ParentObject))
    /\ \E e \in InvokedFor(ChildB, f) : e.w = Root /\ e.object = ParentObject

\* C4: a call issued in a child world on a handle whose primary is registered
\* in a sibling world is eventually settled in the caller, and the target was
\* invoked in the sibling and nowhere else (or the handle had been disposed
\* by then); for every pair of children of one parent.
C4_SiblingCallSettles ==
  \A w \in {ChildA, ChildB} : \A f \in 1..MaxForkCalls :
    (/\ f \in CallsOf(w)
     /\ futures[w][f].to[1] \notin {worldId_[w], worldId_[Root]}
     /\ Registered(futures[w][f].to))
      ~> (/\ f \in CallsOf(w)
          /\ Settled(w, f)
          /\ InvokedFor(w, f) = {} => futures[w][f].value = ErrorOf(DisposedText)
          /\ \A e \in InvokedFor(w, f) : worldId_[e.w] = futures[w][f].to[1])

C5_Step ==
  /\ \A e \in log' \ log : Registered(e.to)
  /\ \A w \in Inst : \A f \in CallsOf(w)' :
       (/\ Settled(w, f)'
        /\ f \in CallsOf(w) => ~Settled(w, f)
        /\ InvokedFor(w, f)' = {})
         => /\ futures'[w][f].state = "rejected"
            /\ futures'[w][f].value = ErrorOf(DisposedText)
            /\ futures'[w][f].settles = 1
  /\ \A w \in Inst : \A f \in CallsOf(w)' :
       (~Settled(w, f)' /\ Disposed(futures[w][f].to)') => InFlight(w, f)'
  /\ thrown' = thrown

NotPrimaryError == [w |-> Root, api |-> "dispose", message |-> NotPrimaryText]

\* C6: dispose on a handle that is not a primary handle throws, and leaves
\* the export registry and every other piece of state as it was.
C6_DisposeSecondaryFails ==
  \A h \in HandlesOf(Root) \ PrimariesOf(Root) :
    dispose(State, Root, h) = [State EXCEPT !.thrown = @ \cup {NotPrimaryError}]

\* C6 witness: the application disposed a secondary handle and got the error,
\* while a primary handle is registered.
C6_Witness ==
  /\ NotPrimaryError \in thrown
  /\ HandlesOf(Root) \ PrimariesOf(Root) # {}
  /\ DOMAIN idToHandle_[Root] # {}

\* C7: handle(object) throws when object is falsy and when object is a
\* handle; then the handle counter, the export registry and the handles of
\* the world are as before; and no handle has a handle as its target.
C7_HandleRejects ==
  /\ \A object \in HandleInputs(Root) :
       (IsFalsy(object) \/ IsProxy(object)) =>
         LET s == handle(State, Root, object)
         IN /\ s.lastHandleId_ = lastHandleId_
            /\ s.idToHandle_ = idToHandle_
            /\ s.heap = heap
            /\ [w |-> Root, api |-> "handle",
                message |-> IF IsFalsy(object) THEN NotAnObjectText
                            ELSE HandleToHandleText] \in s.thrown
  /\ \A h \in HandlesOf(Root) : heap[Root][h].object_ \in Objects \cup {NoObject}

\* C7 witness: the application called handle() with a falsy value and with a
\* handle, and a primary handle exists.
C7_Witness ==
  /\ [w |-> Root, api |-> "handle", message |-> NotAnObjectText] \in thrown
  /\ [w |-> Root, api |-> "handle", message |-> HandleToHandleText] \in thrown
  /\ PrimariesOf(Root) # {}

\* a token of the wire that names an address
IsToken(v) == v.t = "token"

C8_Step ==
  \A e \in log' \ log : \A i \in 1..Len(e.args) :
    (/\ IsToken(e.p.items[i])
     /\ e.p.items[i].rpc_a[1] = worldId_[e.w]
     /\ e.p.items[i].rpc_a[2] \in DOMAIN idToHandle_[e.w])
      => /\ e.args[i] = ProxyOf(idToHandle_[e.w][e.p.items[i].rpc_a[2]])
         /\ heap'[e.w] = heap[e.w]
         /\ heap[e.w][e.args[i].h].object_ # NoObject
         /\ heap[e.w][e.args[i].h].localAddress_ = e.p.items[i].rpc_a

C9_OneHandlePerAddress ==
  \A w \in Inst : \A h1, h2 \in HandlesOf(w) :
    heap[w][h1].address_ = heap[w][h2].address_ => h1 = h2

C9_Step ==
  \A e \in log' \ log : \A i \in 1..Len(e.args) :
    (IsToken(e.p.items[i]) /\ e.p.items[i].rpc_a[1] # worldId_[e.w])
      => /\ IsProxy(e.args[i])
         /\ e.args[i].h \notin HandlesOf(e.w)
         /\ e.args[i].h \in DOMAIN heap'[e.w]
         /\ heap'[e.w][e.args[i].h].address_ = e.p.items[i].rpc_a
         /\ heap'[e.w][e.args[i].h].object_ = NoObject
         /\ \A h \in HandlesOf(e.w) :
              heap[e.w][h].localAddress_ # heap'[e.w][e.args[i].h].localAddress_
         /\ idToHandle_'[e.w] = idToHandle_[e.w]

\* C9 amended: a token whose address belongs to another world yields a new
\* secondary handle on every receipt: it targets the token's address, has a
\* local address no earlier handle of the world has, and is registered
\* nowhere.
C9_FreshHandlePerReceipt == [][C9_Step]_vars

\* C9 witness: a world that held a handle to an address of another world
\* received that address again and now holds two handles to it.
C9_Witness ==
  \E w \in Inst : \E h1, h2 \in HandlesOf(w) :
    /\ h1 < h2
    /\ heap[w][h1].address_ = heap[w][h2].address_
    /\ heap[w][h1].address_[1] # worldId_[w]
    /\ \E e \in log : e.w = w /\ \E i \in 1..Len(e.args) : e.args[i] = ProxyOf(h2)

\* C10: within a world no two handles ever created (primary or secondary,
\* disposed or not) have the same local id.
C10_UniqueLocalIds ==
  \A w \in Inst : \A h1, h2 \in HandlesOf(w) :
    h1 # h2 => heap[w][h1].localAddress_[2] # heap[w][h2].localAddress_[2]

\* C10 witness: handle(x) was called twice on the same object, one of the two
\* handles was disposed, and a secondary handle was created after that.
C10_Witness ==
  \E h1, h2, h3 \in HandlesOf(Root) :
    /\ h1 < h2 /\ h2 < h3
    /\ heap[Root][h1].object_ = "a" /\ heap[Root][h2].object_ = "a"
    /\ heap[Root][h1].address_[2] \notin DOMAIN idToHandle_[Root]
    /\ heap[Root][h3].object_ = NoObject
\* C11: a call to a member of an exported object whose name starts or ends
\* with '_' is rejected with the 'Private members are not exposed over RPC'
\* error, whether the member exists and is callable ("_sum", "sum_", "_") or
\* does not exist ("_gone": the privacy check comes before the existence
\* check); no member with such a name is ever invoked or read.
C11_PrivateRejected ==
  LET private == {"_sum", "sum_", "_gone", "_"}
  IN /\ \A e \in log : e.m \notin private
     /\ \A r \in reads : r.m \notin private
     /\ \A w \in Inst : \A f \in CallsOf(w) :
          (futures[w][f].m \in private /\ Settled(w, f)) =>
            /\ futures[w][f].state = "rejected"
            /\ futures[w][f].value = ErrorOf(PrivateText(futures[w][f].m))

\* a call of the callable member "sum_" from another world has been rejected
C11_Witness ==
  \E f \in CallsOf(ChildA) :
    /\ futures[ChildA][f].m = "sum_"
    /\ IsCallable(ObjectAt(futures[ChildA][f].to), "sum_")
    /\ futures[ChildA][f].state = "rejected"

\* C12: a call on a primary handle of a non-function object has exactly the
\* outcome its member name selects, in this order: a private name is
\* rejected; a name absent from the target fails with 'There is no member';
\* a member that is not callable fails when arguments were supplied and
\* otherwise yields the member's value, the current one at the time of the
\* dispatch; a callable member is invoked with the unwrapped arguments and
\* its result is what the call resolves with.
C12_Outcome(w, f) ==
  LET fu == futures[w][f]
      m == fu.m
  IN IF m \in {"_sum", "sum_", "_gone", "_"}
       THEN /\ fu.state = "rejected" /\ fu.value = ErrorOf(PrivateText(m))
            /\ InvokedFor(w, f) = {}
     ELSE IF m \notin CallableMembers \cup DataMembers
       THEN /\ fu.state = "rejected"
            /\ fu.value = ErrorOf(NoMemberText(m, [name |-> "Foo"]))
            /\ InvokedFor(w, f) = {}
     ELSE IF m \in DataMembers
       THEN /\ InvokedFor(w, f) = {}
            /\ IF fu.args # <<>>
               THEN /\ fu.state = "rejected"
                    /\ fu.value = ErrorOf(NotAFunctionText(m, ArrayOf(fu.args)))
               ELSE fu.state = "resolved" /\ fu.value \in {Num(1), fields[ParentObject]}
     ELSE /\ \E e \in InvokedFor(w, f) : e.m = m /\ e.args = fu.args
          /\ fu.state = "resolved" =>
               fu.value = TargetResult(ObjectAt(fu.to), m, fu.args)

C12_Current ==
  \A f \in DOMAIN futures'[Root] \ DOMAIN futures[Root] :
    (futures'[Root][f].m = "value" /\ futures'[Root][f].args = <<>>) =>
      /\ futures'[Root][f].state = "resolved"
      /\ futures'[Root][f].value = fields[ParentObject]

C12_MemberResolution ==
  /\ [](\A w \in Inst : \A f \in CallsOf(w) : Settled(w, f) => C12_Outcome(w, f))
  /\ [][C12_Current]_vars

\* the root has read the data property of its object after it was assigned
C12_Witness ==
  \E f \in CallsOf(Root) :
    /\ futures[Root][f].m = "value"
    /\ futures[Root][f].state = "resolved"
    /\ futures[Root][f].value = Num(2)

\* C13: a failure raised while a call is dispatched (the target method
\* throws, the member does not resolve, the return value cannot be wrapped)
\* is caught and answered to that call as an error response: no exception
\* leaves the handler, every call settles with the outcome of its own
\* dispatch whatever happened to the calls around it, and the world
\* dispatches the calls that arrive after the failure.
C13_OwnOutcome(w, f) ==
  LET fu == futures[w][f]
  IN CASE fu.m = "bad" ->
            fu.state = "rejected" /\ fu.value = ErrorOf(ExceptionText)
       [] fu.m = "missing" ->
            /\ fu.state = "rejected"
            /\ fu.value = ErrorOf(NoMemberText("missing", [name |-> "Foo"]))
       [] fu.m = "loop" ->
            fu.state = "rejected" /\ fu.value = ErrorOf(ChainTooLongText)
       [] OTHER ->
            /\ fu.state = "resolved"
            /\ fu.value = TargetResult(ObjectAt(fu.to), fu.m, fu.args)

C13_FailuresAnswered ==
  /\ [](thrown = {})
  /\ [](\A w \in Inst : \A f \in CallsOf(w) :
         Settled(w, f) => futures[w][f].settles = 1 /\ C13_OwnOutcome(w, f))
  /\ <>[](\A w \in Inst : \A f \in CallsOf(w) : Settled(w, f))

\* a world's call failed in the dispatch and the call it made next succeeded
C13_Witness ==
  \E f \in CallsOf(ChildB) : \E g \in CallsOf(ChildB) :
    /\ f < g
    /\ futures[ChildB][f].m = "bad" /\ futures[ChildB][f].state = "rejected"
    /\ futures[ChildB][g].m = "ordinal" /\ futures[ChildB][g].state = "resolved"

\* the levels of array/object nesting of a value
RECURSIVE Nesting(_)
Max(S) == CHOOSE n \in S : \A k \in S : k <= n
Nesting(v) ==
  IF v.t = "array"
    THEN 1 + Max({0} \cup {Nesting(v.items[i]) : i \in DOMAIN v.items})
  ELSE IF v.t = "record"
    THEN 1 + Max({0} \cup {Nesting(v.entries[i].v) : i \in DOMAIN v.entries})
  ELSE 0

\* C14: with depth bound D, wrap_ succeeds on every non-cyclic value nested
\* at most D levels and fails with 'Object reference chain is too long' on a
\* value nested D + 1 levels, whatever the innermost container holds.
C14_DepthBoundary ==
  wrapped # None =>
    /\ Nesting(codecParam) <= codecDepth => ~IsThrow(wrapped)
    /\ Nesting(codecParam) = codecDepth + 1 => wrapped = ChainTooLong

\* the same boundary for the values whose innermost container is empty
C14_EmptyInnermost ==
  (wrapped # None /\ codecParam \in {Nest(levels, kind, <<>>) :
                      levels \in 1..MaxNesting, kind \in {"array", "object"}}) =>
    /\ Nesting(codecParam) <= codecDepth => ~IsThrow(wrapped)
    /\ Nesting(codecParam) = codecDepth + 1 => wrapped = ChainTooLong

\* the value holds an object on a reference cycle
RECURSIVE HasCycle(_)
HasCycle(v) ==
  \/ v.t = "cyclic"
  \/ v.t = "array" /\ \E i \in DOMAIN v.items : HasCycle(v.items[i])
  \/ v.t = "record" /\ \E i \in DOMAIN v.entries : HasCycle(v.entries[i].v)

\* C15: a call whose arguments hold a self-referential structure fails in
\* the caller with 'Object reference chain is too long': the step of the
\* call leaves a rejected future and routes no message, takes no message id
\* and registers no pending completion.
C15_Step ==
  \A w \in Inst : \A f \in DOMAIN futures'[w] \ DOMAIN futures[w] :
    HasCycle(ArrayOf(futures'[w][f].args)) =>
      /\ futures'[w][f].state = "rejected"
      /\ futures'[w][f].value = ErrorOf(ChainTooLongText)
      /\ lastMessageId_' = lastMessageId_
      /\ callbacks_' = callbacks_
      /\ toChild' = toChild /\ toParent' = toParent
      /\ running' = running /\ log' = log

C15_CyclicArgumentFails == [][C15_Step]_vars

\* a world other than the root has made a call with {a} where a.a = a
C15_Witness ==
  \E f \in DOMAIN futures[ChildA] :
    /\ futures[ChildA][f].args = <<Rec(<<[k |-> "a", v |-> Cyclic]>>)>>
    /\ futures[ChildA][f].state = "rejected"

\* a value built of null, booleans, numbers, strings, sequences and records
RECURSIVE Serializable(_)
Serializable(v) ==
  \/ v.t \in {"null", "boolean", "number", "string"}
  \/ v.t = "array" /\ \A i \in DOMAIN v.items : Serializable(v.items[i])
  \/ v.t = "record" /\ \A i \in DOMAIN v.entries : Serializable(v.entries[i].v)

\* C16: for every value built of null, booleans, numbers, strings, sequences
\* and records, holding no handle and within the depth bound,
\* unwrap_(wrap_(v)) is v.
C16_RoundTrip ==
  (Serializable(codecParam) /\ wrapped # None /\ ~IsThrow(wrapped)
     /\ unwrapped # None) => unwrapped = codecParam

\* some object of the value has a truthy entry under the key of a token
RECURSIVE HoldsTokenKey(_)
HoldsTokenKey(v) ==
  \/ v.t = "array" /\ \E i \in DOMAIN v.items : HoldsTokenKey(v.items[i])
  \/ /\ v.t = "record"
     /\ \/ ~IsFalsy(Get(v, "__rpc_a__"))
        \/ \E i \in DOMAIN v.entries : HoldsTokenKey(v.entries[i].v)

\* the round trip of the values none of whose objects has such an entry
C16_RoundTripOfOthers ==
  (Serializable(codecParam) /\ ~HoldsTokenKey(codecParam) /\ wrapped # None
     /\ ~IsThrow(wrapped) /\ unwrapped # None) => unwrapped = codecParam

\* C17: a handle to a function arrives in every receiving world as a
\* function; a call of it with a1..an invokes the original function once, in
\* the world of the primary handle, with a1..an, and the caller's future
\* resolves with the function's result or rejects with its exception: a call
\* that is pending is on a link or in the function, never lost.
C17_Outcome(w, f) ==
  LET fu == futures[w][f]
      o == ObjectAt(fu.to)
  IN /\ IsFunctionObject(o)
     /\ Cardinality(InvokedFor(w, f)) <= 1
     /\ \A e \in InvokedFor(w, f) :
          e.w = HomeOf(fu.to) /\ e.object = o /\ e.args = fu.args
     /\ Settled(w, f) =>
          /\ InvokedFor(w, f) # {}
          /\ fu.settles = 1
          /\ IF TargetThrows(o, fu.m, fu.args)
             THEN fu.state = "rejected" /\ fu.value = ErrorOf(ExceptionText)
             ELSE fu.state = "resolved" /\ fu.value = Num(Len(fu.args))

C17_FunctionHandle ==
  /\ \A w \in {Root, ChildA, ChildB} : StandInsOf(w) # {}
  /\ \A w \in Inst : \A f \in CallsOf(w) :
       C17_Outcome(w, f) /\ (Settled(w, f) \/ InFlight(w, f))

\* the grandchild called the function of its parent with (1, 3) and has its
\* result, and the function that throws has rejected a call of the child
C17_Witness ==
  /\ \E f \in CallsOf(ChildB) :
       /\ futures[ChildB][f].args = <<Num(1), Num(3)>>
       /\ futures[ChildB][f].state = "resolved"
       /\ futures[ChildB][f].value = Num(2)
  /\ \E f \in CallsOf(ChildA) :
       /\ ObjectAt(futures[ChildA][f].to) = "g"
       /\ futures[ChildA][f].state = "rejected"

\* the value u of world c is what unwrap_ makes of the value v of world w:
\* the same leaves in the same places, and for a handle of w a handle of c
\* to the same primary
RECURSIVE Mirrors(_, _, _, _)
Mirrors(w, v, c, u) ==
  IF v.t = "proxy"
    THEN u.t = "proxy" /\ heap[c][u.h].address_ = heap[w][v.h].address_
  ELSE IF v.t = "array"
    THEN /\ u.t = "array" /\ Len(u.items) = Len(v.items)
         /\ \A i \in DOMAIN v.items : Mirrors(w, v.items[i], c, u.items[i])
  ELSE u = v

\* C18: the future of createWorld settles at most once; when it is resolved,
\* the child the parent gave that id has had its initializer called with
\* the unwrapped arguments of createWorld and the initializer has returned,
\* the future holds that child's id and the unwrapped return value of the
\* initializer, and every call the initializer made and awaited has been
\* executed at its target.
C18_WorldFuture(w, k) ==
  LET fu == worldFutures[w][k]
  IN /\ fu.settles <= 1
     /\ fu.state = "pending" <=> fu.settles = 0
     /\ fu.state = "resolved" =>
          \E c \in Inst :
            /\ live[c] /\ sendToParent_[c] = w /\ worldId_[c] = k
            /\ fu.worldId = k
            /\ initializer[c] = "done"
            /\ initialization[c].args # None
            /\ Mirrors(w, ArrayOf(fu.args), c, initialization[c].args)
            /\ Mirrors(c, initialization[c].result, w, fu.result)
            /\ \A f \in CallsOf(c) :
                 /\ Settled(c, f)
                 /\ \E e \in InvokedFor(c, f) : e.w = HomeOf(futures[c][f].to)

C18_CreateWorldResolves ==
  \A w \in Inst : \A k \in DOMAIN worldFutures[w] : C18_WorldFuture(w, k)

\* the root's future holds a handle, and the initializer of that child had
\* called the root's object
C18_Witness ==
  \E k \in DOMAIN worldFutures[Root] : \E c \in Inst :
    /\ worldFutures[Root][k].state = "resolved"
    /\ worldFutures[Root][k].result.t = "proxy"
    /\ worldId_[c] = k /\ CallsOf(c) # {}

\* the world id names a world the root created and has disposed, or a
\* descendant of such a world
Gone(worldId) ==
  \E n \in 1..lastWorldId_[Root] :
    LET w == ChildWorldId(RootWorldId, n)
    IN /\ ~WorldsHas(worlds_[Root], w)
       /\ worldId = w \/ StartsWith(worldId, w \o <<"/">>)

\* C19: once the root has disposed a world, a message it routes to that
\* world or to a descendant of it is dropped: the step puts nothing on any
\* link, starts no target and settles no future; and disposeWorld itself
\* sends nothing.
C19_Step ==
  /\ \A f \in DOMAIN futures'[Root] \ DOMAIN futures[Root] :
       Gone(futures'[Root][f].to[1]) =>
         /\ toChild' = toChild /\ toParent' = toParent /\ running' = running
         /\ futures'[Root][f].state = "pending"
  /\ \A c \in Inst :
       (/\ sendToParent_[c] = Root /\ toParent[c] # <<>>
        /\ toParent'[c] = Tail(toParent[c])
        /\ "to" \in DOMAIN Head(toParent[c])
        /\ Gone(Head(toParent[c]).to[1])) =>
         /\ toChild' = toChild /\ running' = running /\ futures' = futures
         /\ \A d \in Inst \ {c} : toParent'[d] = toParent[d]
  /\ worlds_' # worlds_ =>
       toChild' = toChild /\ toParent' = toParent /\ futures' = futures

C19_DisposedWorldDropped == [][C19_Step]_vars

\* the world id is that of the world dest or of one of its ancestors
OnPathTo(worldId, dest) == dest = worldId \/ StartsWith(dest, worldId \o <<"/">>)

\* the call of future f of world w is lost: it is pending with its completion
\* registered, it was not invoked, no response to it is on a link, and its
\* message is not on a link that leads down to its target
Lost(w, f) ==
  /\ futures[w][f].state = "pending"
  /\ futures[w][f].id \in DOMAIN callbacks_[w]
  /\ InvokedFor(w, f) = {}
  /\ \A payload \in OnLinks :
       ~(/\ IsResponse(payload)
         /\ payload.to = SenderOf(w, f) /\ payload.rid = futures[w][f].id)
  /\ \A c \in Inst : OnPathTo(worldId_[c], futures[w][f].to[1]) =>
       \A i \in DOMAIN toChild[c] :
         ~(/\ IsCall(toChild[c][i])
           /\ toChild[c][i].from = SenderOf(w, f)
           /\ toChild[c][i].id = futures[w][f].id)

\* C20 as stated: a call made on a handle whose world has been disposed,
\* from whatever world, stays pending with its completion registered.
C20_Step ==
  \A w \in Inst : \A f \in DOMAIN futures'[w] :
    (\/ f \notin DOMAIN futures[w] /\ Gone(futures'[w][f].to[1])
     \/ f \in DOMAIN futures[w] /\ Gone(futures[w][f].to[1]) /\ Lost(w, f))
      => Lost(w, f)'

C20_NeverSettles == [][C20_Step]_vars

\* C20 for the callers outside the disposed world: a call made from a world
\* that is not itself disposed, on a handle whose world has been disposed,
\* stays pending with its completion registered in every later state.
C20_OutsideStep ==
  \A w \in Inst : \A f \in DOMAIN futures'[w] :
    (/\ ~Gone(worldId_[w])
     /\ \/ f \notin DOMAIN futures[w] /\ Gone(futures'[w][f].to[1])
        \/ f \in DOMAIN futures[w] /\ Gone(futures[w][f].to[1]) /\ Lost(w, f))
      => Lost(w, f)'

C20_NeverSettlesFromOutside == [][C20_OutsideStep]_vars

\* the root's call to the object of a world it disposed is lost, with every
\* link empty
C20_Witness ==
  \E f \in CallsOf(Root) :
    /\ Gone(futures[Root][f].to[1])
    /\ Lost(Root, f)
    /\ \A c \in Inst : toChild[c] = <<>> /\ toParent[c] = <<>>

\* the registry without its i-th entry, the other entries in their order
WithoutEntry(worlds, i) ==
  [j \in 1..(Len(worlds) - 1) |-> IF j < i THEN worlds[j] ELSE worlds[j + 1]]

\* C21: disposeWorld(id) in world w, for an id that is not registered in w
\* (never created, or already disposed), throws 'No world with given id
\* exists' and changes nothing else; for a registered id it removes that one
\* entry of the registry and changes nothing else.
C21_DisposeWorld ==
  \A w \in Inst : live[w] =>
    \A worldId \in WorldIdsTried(w) :
      LET after == disposeWorld(State, w, worldId)
          entries == {i \in DOMAIN worlds_[w] : worlds_[w][i].worldId = worldId}
      IN IF entries = {}
         THEN after = [State EXCEPT !.thrown = @ \cup
                         {[w |-> w, api |-> "disposeWorld",
                           message |-> "No world with given id exists"]}]
         ELSE /\ Cardinality(entries) = 1
              /\ after = [State EXCEPT !.worlds_[w] =
                            WithoutEntry(@, CHOOSE i \in entries : TRUE)]

\* the root was refused the disposal of a world it had already disposed,
\* and has disposed one of two children while the other is registered
C21_Witness ==
  /\ [w |-> Root, api |-> "disposeWorld",
      message |-> "No world with given id exists"] \in thrown
  /\ Len(worlds_[Root]) = 1
  /\ \E worldId \in WorldIdsTried(Root) :
       Gone(worldId) /\ worldFutures[Root][worldId].state = "resolved"

\* everything but the record of the last property read
Unprobed(s) == [s EXCEPT !.probed = None]

\* C22: a step in which 'then' is read of a handle proxy - by the application
\* or by the resolution of a promise with the proxy - yields undefined and
\* routes no message, takes no message id and adds no pending completion:
\* nothing but the record of the read changes.
C22_Step ==
  (probed' # probed /\ probed'.key = Str("then")) =>
    /\ probed'.value = Undefined
    /\ Unprobed(State)' = Unprobed(State)

C22_ThenIsAbsent == [][C22_Step]_vars

\* a proxy was awaited while a call is outstanding, and another name read of
\* the same proxy gave the method bound to that name
C22_Witness ==
  /\ probed # None /\ probed.by = "await" /\ probed.value = Undefined
  /\ \E f \in CallsOf(probed.w) : futures[probed.w][f].state = "pending"
  /\ proxyHandler_(probed.h, Str("ordinal")) = Bound(probed.h, "ordinal")

\* the children registered in world w whose world is the destination or an
\* ancestor of it in the tree of worlds
OwnersOf(w, dest) ==
  {worlds_[w][i].send : i \in {j \in DOMAIN worlds_[w] :
                                 OnPathTo(worlds_[w][j].worldId, dest)}}

\* the step of world w forwards the message to the children in owners, and
\* to no other child
ForwardedTo(owners, payload) ==
  \A c \in Inst :
    toChild'[c] = IF c \in owners THEN Append(toChild[c], payload) ELSE toChild[c]

\* C23: when world w routes a message - a call of its own, or a message one
\* of its registered children sent - whose destination world is a registered
\* child of w or a descendant of one, the step appends the message unchanged
\* to the link of that child and to the link of no other child.
C23_Step ==
  /\ \A w \in Inst : \A f \in DOMAIN futures'[w] \ DOMAIN futures[w] :
       LET fu == futures'[w][f]
           owners == OwnersOf(w, fu.to[1])
       IN (fu.id # 0 /\ fu.to[1] # worldId_[w] /\ owners # {}) =>
            \E payload \in {toChild'[c][Len(toChild'[c])] :
                              c \in {d \in Inst : toChild'[d] # <<>>}} :
              /\ payload.id = fu.id /\ payload.to = fu.to
              /\ payload.from = heap'[w][fu.h].localAddress_
              /\ ForwardedTo(owners, payload)
  /\ \A c \in Inst :
       (/\ live[c] /\ toParent[c] # <<>> /\ toParent'[c] = Tail(toParent[c])
        /\ "to" \in DOMAIN Head(toParent[c])
        /\ isActiveWorld_(State, sendToParent_[c], Head(toParent[c]).from[1])
        /\ Head(toParent[c]).to[1] # worldId_[sendToParent_[c]]
        /\ OwnersOf(sendToParent_[c], Head(toParent[c]).to[1]) # {}) =>
         ForwardedTo(OwnersOf(sendToParent_[c], Head(toParent[c]).to[1]),
                     Head(toParent[c]))

C23_ForwardedToOwner == [][C23_Step]_vars

\* the sender's world is world p itself, a child registered in p, or a
\* descendant of such a child
ActiveSender(p, worldId) ==
  \/ worldId = worldId_[p]
  \/ \E i \in DOMAIN worlds_[p] : OnPathTo(worlds_[p][i].worldId, worldId)

\* C24: when a world takes from the link of a child a call or a response
\* whose sender world is neither the world itself nor a registered child nor
\* a descendant of a registered child, the message is dropped: the step
\* removes it from the link and changes nothing else (no target is invoked,
\* no future settles, nothing is forwarded, no response is produced).  So
\* nothing a disposed world sends is dispatched in or relayed by its parent.
C24_Step ==
  \A c \in Inst :
    (/\ live[c] /\ toParent[c] # <<>> /\ toParent'[c] = Tail(toParent[c])
     /\ "from" \in DOMAIN Head(toParent[c])
     /\ ~ActiveSender(sendToParent_[c], Head(toParent[c]).from[1])) =>
      State' = [State EXCEPT !.toParent[c] = Tail(@)]

C24_InactiveSenderDropped == [][C24_Step]_vars

\* C25: when a world takes from its parent's link a response addressed to
\* itself whose rid matches no pending completion (never issued, or consumed
\* by an earlier delivery of the same response), nothing happens: the step
\* removes the message from the link and changes nothing else - no future
\* settles, callbacks_ is unchanged, no error is raised.
C25_Step ==
  \A c \in Inst :
    (/\ live[c] /\ toChild[c] # <<>> /\ toChild'[c] = Tail(toChild[c])
     /\ "rid" \in DOMAIN Head(toChild[c])
     /\ Head(toChild[c]).to[1] = worldId_[c]
     /\ Head(toChild[c]).rid \notin DOMAIN callbacks_[c]) =>
      State' = [State EXCEPT !.toChild[c] = Tail(@)]

C25_UnknownRidIgnored == [][C25_Step]_vars

\* C26: the message ids one world allocates are strictly increasing over all
\* its calls, in the order of the calls; no id is taken again while its call
\* is outstanding, and callbacks_ holds for each id the completion of the one
\* call that was sent with it.
C26_IdsIncrease ==
  \A w \in Inst :
    /\ \A f, g \in CallsOf(w) : f < g => futures[w][f].id < futures[w][g].id
    /\ \A f \in CallsOf(w) : futures[w][f].id \in 1..lastMessageId_[w]
    /\ \A id \in DOMAIN callbacks_[w] :
         /\ callbacks_[w][id] \in CallsOf(w)
         /\ futures[w][callbacks_[w][id]].id = id
         /\ futures[w][callbacks_[w][id]].state = "pending"

\* a world has issued a call after an earlier call of its own was settled,
\* the later one outstanding under a larger id
C26_Witness ==
  \E w \in Inst : \E f, g \in CallsOf(w) :
    /\ f < g
    /\ futures[w][f].state # "pending" /\ futures[w][f].id \notin DOMAIN callbacks_[w]
    /\ futures[w][g].state = "pending" /\ futures[w][g].id \in DOMAIN callbacks_[w]

\* C27: callbacks_ holds a completion for a message id exactly while the
\* call sent with that id has had no response dispatched: from the step
\* that sends the call, and until the step that dispatches its response,
\* which removes the entry for a result and for an error alike.  So a world
\* all of whose calls were answered has an empty callbacks_.
C27_PendingWhileOutstanding ==
  \A w \in Inst :
    /\ \A f \in CallsOf(w) :
         futures[w][f].id \in DOMAIN callbacks_[w] <=> futures[w][f].state = "pending"
    /\ DOMAIN callbacks_[w] \subseteq {futures[w][f].id : f \in CallsOf(w)}
    /\ (\A f \in CallsOf(w) : futures[w][f].state # "pending") => callbacks_[w] = <<>>

\* a world made a call that was answered with a result and one that was
\* answered with an error, and its callbacks_ is empty again
C27_Witness ==
  \E w \in Inst : \E f, g \in CallsOf(w) :
    /\ futures[w][f].state = "resolved"
    /\ futures[w][g].state = "rejected"
    /\ callbacks_[w] = <<>>

\* a call that a step hands to dispatchMessageLocally_ of world w
Inbound(w, id, from, to) == [w |-> w, id |-> id, from |-> from, to |-> to]

\* the calls dispatched locally in the step: the head of a link that the
\* receiving world finds addressed to itself, or a call a world makes on a
\* handle of its own world
DispatchedDown ==
  {Inbound(c, Head(toChild[c]).id, Head(toChild[c]).from, Head(toChild[c]).to) :
     c \in {c \in Inst : /\ toChild[c] # <<>> /\ toChild'[c] = Tail(toChild[c])
                         /\ "id" \in DOMAIN Head(toChild[c])
                         /\ Head(toChild[c]).to[1] = worldId_[c]}}

DispatchedUp ==
  {Inbound(sendToParent_[c], Head(toParent[c]).id, Head(toParent[c]).from,
           Head(toParent[c]).to) :
     c \in {c \in Inst :
              /\ live[c] /\ toParent[c] # <<>> /\ toParent'[c] = Tail(toParent[c])
              /\ "id" \in DOMAIN Head(toParent[c])
              /\ isActiveWorld_(State, sendToParent_[c], Head(toParent[c]).from[1])
              /\ Head(toParent[c]).to[1] = worldId_[sendToParent_[c]]}}

DispatchedOwn ==
  UNION {{Inbound(w, futures'[w][f].id, heap'[w][futures'[w][f].h].localAddress_,
                  futures'[w][f].to) :
            f \in {g \in DOMAIN futures'[w] \ DOMAIN futures[w] :
                     /\ futures'[w][g].id # 0
                     /\ futures'[w][g].to[1] = worldId_[w]}} : w \in Inst}

Dispatched == DispatchedDown \cup DispatchedUp \cup DispatchedOwn

\* the responses the step built
Appended == SubSeq(answers', Len(answers) + 1, Len(answers'))

\* envelope m is the response to call c: reverse-correlation id, addresses
\* swapped, and a result or an error text, one of the two
ResponseTo(m, c) ==
  /\ m.rid = c.id /\ m.to = c.from /\ m.from = c.to
  /\ \/ DOMAIN m = {"from", "rid", "to", "r"}
     \/ DOMAIN m = {"from", "rid", "to", "e"} /\ m.e # <<>>

\* C28: each call dispatched locally produces exactly one response envelope,
\* whose rid is the call's id, whose destination is the call's sender address
\* and whose sender is the call's destination address, and which carries a
\* result or an error text, one of the two: a step that dispatches a call
\* either builds that one response (with the 'disposed' text when no handle is
\* registered) or leaves the call running in its target, a step in which a
\* target returns or throws builds that one response, and no other response
\* is ever built.
C28_Step ==
  /\ Len(answers') >= Len(answers)
  /\ SubSeq(answers', 1, Len(answers)) = answers
  /\ \A c \in Dispatched :
       IF c.to[2] \notin DOMAIN idToHandle_[c.w]
       THEN /\ Len(Appended) = 1 /\ ResponseTo(Appended[1], c)
            /\ "e" \in DOMAIN Appended[1] /\ Appended[1].e = DisposedText
       ELSE \/ /\ Appended = <<>>
               /\ \E d \in running' \ running :
                    Inbound(d.w, d.id, d.from, d.to) = c
            \/ /\ Len(Appended) = 1 /\ ResponseTo(Appended[1], c)
               /\ running' = running
  /\ \A d \in running \ running' :
       Len(Appended) = 1 /\ ResponseTo(Appended[1], d)
  /\ Appended # <<>> => Dispatched \cup (running \ running') # {}

C28_ExactlyOneResponse == [][C28_Step]_vars

\* the handshake at the head of the link of world c
HandshakeFor(c) == Head(toChild[c])

\* the initializer of world c was called once, with what unwrap_ makes of the
\* arguments of the createWorld whose id the world has adopted
CalledOnce(c) ==
  /\ initialization[c].calls = 1
  /\ worldId_[c] \in DOMAIN worldFutures[sendToParent_[c]]
  /\ Mirrors(sendToParent_[c], ArrayOf(worldFutures[sendToParent_[c]][worldId_[c]].args),
             c, initialization[c].args)

\* C29: in a child world the init callback fires exactly once: the handshake
\* that finds the callback set makes the world adopt the announced id, calls
\* the initializer with the unwrapped arguments of createWorld and clears the
\* callback; a handshake that finds it cleared, like every other step, leaves
\* the initializer, its arguments and the number of its calls as they are;
\* no world's initializer is ever called twice.
C29_Handshake(c) ==
  IF cookieCallback_[c] = "function"
  THEN /\ worldId_'[c] = HandshakeFor(c).worldId
       /\ cookieCallback_'[c] = "null"
       /\ initializer[c] = "waiting" /\ initializer'[c] = "running"
       /\ initialization'[c].calls = 1
  ELSE /\ cookieCallback_'[c] = cookieCallback_[c]
       /\ initialization'[c] = initialization[c]
       /\ initializer'[c] = initializer[c]

C29_Step ==
  \A c \in Inst :
    IF /\ live[c] /\ toChild[c] # <<>> /\ toChild'[c] = Tail(toChild[c])
       /\ "cookie" \in DOMAIN HandshakeFor(c)
    THEN C29_Handshake(c)
    ELSE /\ initialization'[c].calls = initialization[c].calls
         /\ initialization'[c].args = initialization[c].args
         /\ initializer'[c] = "running" => initializer[c] = "running"
         /\ cookieCallback_[c] = "null" => cookieCallback_'[c] = "null"

C29_InitOnce ==
  /\ [](\A c \in Inst : initialization[c].calls # 0 => CalledOnce(c))
  /\ [][C29_Step]_vars

\* a world whose initializer has been called received its handshake a second
\* time, with handles among the arguments
C29_Witness ==
  \E c \in Inst :
    /\ initialization[c].calls = 1 /\ cookieCallback_[c] = "null"
    /\ \E i \in DOMAIN initialization[c].args.items :
         initialization[c].args.items[i].t = "proxy"
    /\ \E e \in thrown : e.w = c /\ e.api = "routeMessage_"

\* the links, downward and upward
Links == [dir : {"down", "up"}, c : Inst]
Queue(l) == IF l.dir = "down" THEN toChild[l.c] ELSE toParent[l.c]

\* the step leaves the link alone, takes its head, or puts one message
\* behind the messages it holds
Grown(l) == Queue(l)' # <<>> /\ Queue(l)' = Append(Queue(l), Queue(l)'[Len(Queue(l)')])
Taken(l) == Queue(l) # <<>> /\ Queue(l)' = Tail(Queue(l))
Fifo(l) == Queue(l)' = Queue(l) \/ Taken(l) \/ Grown(l)

\* the message the step took from link l is one the receiving world forwards:
\* a call or a response addressed to another world
Forwardable(l) ==
  LET m == Head(Queue(l))
      w == IF l.dir = "down" THEN l.c ELSE sendToParent_[l.c]
  IN /\ "to" \in DOMAIN m
     /\ m.to[1] # worldId_[w]

\* calls d and e come from one world and go to one world
SameRoute(d, e) == d.from[1] = e.from[1] /\ d.to[1] = e.to[1]

\* C30: the router does not reorder, duplicate or batch. Every step leaves
\* each link alone, takes its head or appends one message to it, and appends
\* to at most one link; a step that takes from a link a message addressed to
\* another world appends nothing but that message, unchanged; and when a
\* target is invoked for a call, every call of the same world to the same
\* destination world invoked before it was issued before it.
C30_Step ==
  /\ \A l \in Links : Fifo(l)
  /\ \A l \in Links : \A k \in Links : (Grown(l) /\ Grown(k)) => l = k
  /\ \A l \in Links : (Taken(l) /\ Forwardable(l)) =>
       \A k \in Links : Grown(k) => Queue(k)'[Len(Queue(k)')] = Head(Queue(l))
  /\ \A d \in log' \ log : \A e \in log : SameRoute(d, e) => e.id < d.id

C30_InOrder == [][C30_Step]_vars

\* a world has two calls under way to one other world, two links away: the
\* target of the first has been invoked, the second is still on a link
C30_Witness ==
  \E d \in log : \E l \in Links : \E i \in DOMAIN Queue(l) :
    /\ "id" \in DOMAIN Queue(l)[i]
    /\ SameRoute(d, Queue(l)[i]) /\ d.id < Queue(l)[i].id
    /\ d.from[1] = worldId_[ChildB] /\ d.to[1] = worldId_[Root]

\* the handles registered as exports of world w in state s
Exports(s, w) == {s.idToHandle_[w][k] : k \in DOMAIN s.idToHandle_[w]}

\* C31: a world's export registry holds only primary handles (local address
\* equal to primary address, target object present), each under its own local
\* id; a handle created on receipt of an address is not in the registry; and
\* dispose takes the handle out of the registry.
C31_Registry ==
  \A w \in Inst :
    /\ \A k \in DOMAIN idToHandle_[w] :
         LET handle_ == heap[w][idToHandle_[w][k]]
         IN /\ handle_.localAddress_ = handle_.address_
            /\ handle_.object_ # NoObject
            /\ handle_.localAddress_[2] = k
    /\ \A h \in DOMAIN heap[w] :
         /\ heap[w][h].object_ = NoObject => h \notin Exports(State, w)
         /\ h \notin Exports(dispose(State, w, h), w)

\* a world holds a handle it received, an export, and a primary handle that
\* was disposed
C31_Witness ==
  \E w \in Inst : \E g \in DOMAIN heap[w] : \E h \in DOMAIN heap[w] :
    /\ heap[w][g].object_ = NoObject
    /\ heap[w][h].object_ # NoObject /\ h \notin Exports(State, w)
    /\ Exports(State, w) # {}

\* C35: for every handle held in a world, primary or secondary, the world
\* component of its local address is the world's current id, in every
\* reachable state, also for the handles created before the world received
\* the handshake that assigns its id.
C35_LocalAddressWorld ==
  \A w \in Inst : \A h \in DOMAIN heap[w] :
    live[w] => heap[w][h].localAddress_[1] = worldId_[w]

\* the ids under which world w has children registered
ChildIds(w) == {worlds_[w][i].worldId : i \in DOMAIN worlds_[w]}

\* C34: no two worlds of the tree have the same id - the ids registered in
\* the worlds are distinct from each other and from the root's - and a parent
\* never assigns an id again: each createWorld raises the child counter by
\* one and registers an id the parent has not assigned before, the counter
\* never goes down, also after disposeWorld, and also in a world that has not
\* received its own handshake.
C34_Unique ==
  /\ \A w \in Inst : RootWorldId \notin ChildIds(w)
  /\ \A w \in Inst : Cardinality(ChildIds(w)) = Len(worlds_[w])
  /\ \A w \in Inst : \A v \in Inst : w # v => ChildIds(w) \cap ChildIds(v) = {}

C34_Step ==
  \A w \in Inst :
    /\ lastWorldId_'[w] >= lastWorldId_[w]
    /\ \A id \in ChildIds(w)' \ ChildIds(w) :
         /\ id \notin DOMAIN worldFutures[w]
         /\ lastWorldId_'[w] = lastWorldId_[w] + 1
         /\ id = ChildWorldId(worldId_[w], lastWorldId_'[w])

C34_UniqueWorldIds == []C34_Unique /\ [][C34_Step]_vars

\* the handle tokens inside a wire value
RECURSIVE TokensIn(_)
TokensIn(v) ==
  IF v.t = "token" THEN {v}
  ELSE IF v.t = "array" THEN UNION {TokensIn(v.items[i]) : i \in DOMAIN v.items}
  ELSE IF v.t = "record"
    THEN UNION {TokensIn(v.entries[i].v) : i \in DOMAIN v.entries}
  ELSE {}

\* the wire values a message carries
Carried(m) ==
  (IF "message" \in DOMAIN m THEN {m.message.p} ELSE {})
  \cup (IF "r" \in DOMAIN m THEN {m.r} ELSE {})
  \cup (IF "args" \in DOMAIN m THEN {m.args} ELSE {})

TokensOnLinks == UNION {UNION {TokensIn(v) : v \in Carried(m)} : m \in OnLinks}

\* the worlds that hold a primary handle under the address
PrimaryWorlds(address) ==
  {v \in Inst : live[v] /\ \E g \in PrimariesOf(v) : heap[v][g].localAddress_ = address}

\* C32: every token wrap_ produced, and so every handle created from one,
\* carries the address of a primary handle, never the local address of a
\* secondary handle, and that address names the one world that holds the
\* primary: a message sent through any relayed handle is addressed to the
\* primary's world.
C32_PrimaryAddress ==
  /\ \A t \in TokensOnLinks : PrimaryWorlds(t.rpc_a) # {}
  /\ \A w \in Inst : \A h \in DOMAIN heap[w] :
       /\ PrimaryWorlds(heap[w][h].address_) # {}
       /\ \A v \in Inst : \A g \in DOMAIN heap[v] \ PrimariesOf(v) :
            heap[v][g].localAddress_ # heap[w][h].address_
       /\ \A v \in PrimaryWorlds(heap[w][h].address_) :
            worldId_[v] = heap[w][h].address_[1]

\* C33: a target method that issues a further call while it is dispatched and
\* awaits it does not deadlock: the inner call settles while the outer call
\* is still pending, the outer call is settled only after it and with its
\* outcome, and every call eventually settles.
OuterOf(by) ==
  {<<v, g>> \in Inst \X (1..(2 * MaxNestedCalls + 2)) :
     /\ g \in CallsOf(v)
     /\ SenderOf(v, g) = by[2]
     /\ futures[v][g].id = by[3]}
Inner == {<<w, f>> \in Inst \X (1..(2 * MaxNestedCalls + 2)) :
            f \in DOMAIN futures[w] /\ "by" \in DOMAIN futures[w][f]}
C33_InnerFirst ==
  \A i \in Inner : \A o \in OuterOf(futures[i[1]][i[2]].by) :
    Settled(o[1], o[2]) =>
      /\ Settled(i[1], i[2])
      /\ futures[o[1]][o[2]].state = futures[i[1]][i[2]].state
      /\ futures[i[1]][i[2]].state = "resolved" =>
           futures[o[1]][o[2]].value = futures[i[1]][i[2]].value
C33_AllSettled ==
  \A w \in Inst : \A f \in DOMAIN futures[w] :
    futures[w][f].id # 0 => Settled(w, f)
C33_NestedCallsSettle == [](C33_InnerFirst) /\ <>[](C33_AllSettled)
C33_Witness ==
  \E i \in Inner : \E o \in OuterOf(futures[i[1]][i[2]].by) :
    /\ i[1] = Root
    /\ o[1] = ChildA
    /\ futures[Root][i[2]].to[1] = worldId_[ChildA]
    /\ futures[ChildA][o[2]].state = "resolved"
    /\ futures[ChildA][o[2]].value = Num(Ordinal("a"))

\* C36: dispose(h) affects only the calls dispatched after it: a target that
\* was running when the handle was disposed is answered with its result, a
\* call dispatched while no handle is registered under its destination is
\* answered with the 'disposed' error, and every dispatched call is answered,
\* at once or when its target returns.
C36_Step ==
  /\ \A d \in running \ running' :
       /\ Len(Appended) = 1 /\ ResponseTo(Appended[1], d)
       /\ ~TargetThrows(d.object, d.m, d.args) =>
            /\ "r" \in DOMAIN Appended[1]
            /\ Appended[1].r =
                 wrap_(heap[d.w], TargetResult(d.object, d.m, d.args), DefaultMaxDepth)
  /\ \A c \in Dispatched :
       IF c.to[2] \notin DOMAIN idToHandle_[c.w]
       THEN /\ Len(Appended) = 1 /\ ResponseTo(Appended[1], c)
            /\ "e" \in DOMAIN Appended[1] /\ Appended[1].e = DisposedText
       ELSE \/ \E d \in running' \ running : Inbound(d.w, d.id, d.from, d.to) = c
            \/ Len(Appended) = 1 /\ ResponseTo(Appended[1], c)

C36_DisposeAffectsLater == [][C36_Step]_vars

\* the handshake response of child c that the step delivers to its parent
\* although the parent has no world registered under the response's id
LateResponses ==
  {c \in Inst : /\ live[c] /\ toParent[c] # <<>>
                /\ toParent'[c] = Tail(toParent[c])
                /\ "cookieResponse" \in DOMAIN Head(toParent[c])
                /\ ~WorldsHas(worlds_[sendToParent_[c]], Head(toParent[c]).worldId)}

\* C37: a handshake response that arrives after disposeWorld of its world does
\* not resolve the future of createWorld and changes nothing in the parent.
C37_Step ==
  \A c \in LateResponses :
    LET w == sendToParent_[c]
    IN /\ worldFutures'[w] = worldFutures[w]
       /\ cookieResponseCallbacks_'[w] = cookieResponseCallbacks_[w]
       /\ heap'[w] = heap[w]
       /\ idToHandle_'[w] = idToHandle_[w]
       /\ lastHandleId_'[w] = lastHandleId_[w]
       /\ worlds_'[w] = worlds_[w]

C37_GuardCoversHandshake == [][C37_Step]_vars

\* the worlds whose initializer threw, rejected or returned what wrap_ refuses
FailedWorlds == {c \in Inst : live[c] /\ initializer[c] = "failed"}

\* world w routes a call to an object of world c onto the link to c, and
\* accepts what c sends
Routable(w, c) ==
  LET payload == [to |-> <<worldId_[c], <<"Foo", 1>>>>,
                  from |-> <<worldId_[w], <<"Foo", 1>>>>,
                  message |-> [m |-> "ordinal", p |-> ArrayOf(<<>>)], id |-> 1]
  IN /\ WorldsHas(worlds_[w], worldId_[c])
     /\ routeMessage_(State, w, FALSE, payload) = sendToChild(State, c, payload)
     /\ isActiveWorld_(State, w, worldId_[c])

\* C38: a child whose initializer throws or rejects, or returns a value that
\* cannot be wrapped, sends no handshake response: the future of its
\* createWorld stays pending for good, and the child stays registered in the
\* parent and routable.
C38_Silent ==
  \A c \in FailedWorlds :
    /\ \A i \in DOMAIN toParent[c] : "cookieResponse" \notin DOMAIN toParent[c][i]
    /\ worldFutures[sendToParent_[c]][worldId_[c]].state = "pending"
    /\ worldFutures[sendToParent_[c]][worldId_[c]].settles = 0
    /\ Routable(sendToParent_[c], c)
C38_Step == \A c \in FailedWorlds : c \in FailedWorlds'
C38_FailedInitializer == [](C38_Silent) /\ [][C38_Step]_vars
C38_Witness ==
  \E c \in FailedWorlds : \E d \in FailedWorlds :
    /\ initialization[c].result = Cyclic
    /\ initialization[d].result # Cyclic
    /\ \E f \in CallsOf(Root) :
         /\ futures[Root][f].to[1] = worldId_[c]
         /\ futures[Root][f].state = "resolved"

\* the envelopes with a destination address that are on some link
Addressed == {m \in OnLinks : "to" \in DOMAIN m}

\* the root, given a link to a parent, would put something on it when it
\* routes envelope m
ReachesParentStep(m) ==
  routeMessage_([State EXCEPT !.sendToParent_[Root] = Root], Root, FALSE, m).toParent[Root]
    # <<>>

====
